---------------------------- MODULE Spec2Model ----------------------------
(***************************************************************************)
(* Retrieval core of the clinical guideline RAG pipeline                   *)
(* (extraction/src/medgemma_synthesis.py, extraction/src/database.py).     *)
(*                                                                         *)
(* The state is the SQLite store as one serving session sees it (tables    *)
(* chunks, chunk_metadata, embeddings, chunks_fts), the answers the two    *)
(* indices give for the query under consideration, the import flags of     *)
(* the module, and the outcome of the last retrieval operation.            *)
(***************************************************************************)
EXTENDS Integers, Sequences, FiniteSets, TLC

\* ------------------------------------------------------------------ bounds
\* Number of chunks held by the store.
MaxChunks == 3
\* Largest k / top_k an operation is called with.
MaxK == 3
\* Largest number of rows in table high_risk_terms.
MaxLexicon == 3
\* Longest result list handed to the alerter.
MaxResults == 2
\* Longest chunk list handed to the prompt builders.
MaxPromptChunks == 3
\* Largest max_chars the chunk formatter is called with.
MaxChars == 45
\* Longest alert list handed to the synthesis prompt.
MaxAlerts == 3
\* Longest backend response, in symbols.
MaxResponse == 4
\* Largest number of documents in the database of an ingestion session.
MaxDocs == 2
\* Number of chunk ids the callers of the store choose from.
MaxStoreChunks == 2
\* Largest number of times the high-risk lexicon is loaded into one file.
MaxLoads == 3
\* Largest number of chunks the chunker makes of one PDF.
MaxDocChunks == 2
\* Number of chunks held by the store of a session with full lanes.
MaxFusionChunks == 31
\* Largest top_k search_hybrid is called with over full lanes.
MaxTopK == 31

\* ------------------------------------------------------- program constants
RRF_K == 60
\* search_hybrid runs both lanes with k=15.
LANE_K == 15
\* search_vector asks the vector index for k * 3 candidates.
FETCH_FACTOR == 3
\* search_vector drops rows whose stripped content has fewer characters.
MIN_CONTENT_CHARS == 50

NULL == "NULL"
\* None / SQL NULL in an integer field (page_number), whose other values
\* are page numbers from 0 on.
NO_PAGE == -1
CHUNK_CATEGORY_CONTENT == "content"
CHUNK_CATEGORY_METADATA == "metadata"

ChunkIds == 1..MaxChunks

\* ------------------------------------------------------------------ values
\* A content string is modelled by what the code reads of it: the number of
\* leading whitespace characters, the number of characters that remain after
\* str.strip(), the word tokens the porter/unicode61 tokenizer yields, and
\* the text itself as a sequence of symbols ("sp" a space, any other symbol
\* a letter or a whole word) for the code that scans it.
Content(lead, body, tokens, text) ==
    [lead |-> lead, body |-> body, tokens |-> tokens, text |-> text]

\* len(s)
StrLen(s) == s.lead + s.body
\* s.strip()
StrStrip(s) == [s EXCEPT !.lead = 0]

\* A row of table chunks joined with its chunk_metadata row, as the chunker
\* and insert_chunk produce it.
ChunkRow(category, content, headings, page_number) ==
    [category |-> category, content |-> content, headings_json |-> headings,
     page_number |-> page_number]

ChunkKinds ==
    { ChunkRow(CHUNK_CATEGORY_CONTENT,
               Content(0, 50, {"w1"}, <<"w1">>), <<"Malaria">>, 5),
      ChunkRow(CHUNK_CATEGORY_CONTENT,
               Content(1, 50, {"w2"}, <<"sp", "w2">>), <<"Malaria", "Treatment">>, 6),
      ChunkRow(CHUNK_CATEGORY_CONTENT,
               Content(1, 49, {"w1", "w2"}, <<"sp", "w1", "sp", "w2">>), NULL, NO_PAGE),
      ChunkRow(CHUNK_CATEGORY_METADATA,
               Content(0, 60, {"w1"}, <<"w1">>), <<"Contents">>, 1) }

\* A score is an exact fraction <<numerator, denominator>>, denominator > 0.
Frac(n, d) == <<n, d>>
FAdd(a, b) == <<a[1] * b[2] + b[1] * a[2], a[2] * b[2]>>
FLess(a, b) == a[1] * b[2] < b[1] * a[2]
FEq(a, b) == a[1] * b[2] = b[1] * a[2]
Abs(n) == IF n < 0 THEN -n ELSE n

\* Distances are counted in units of 1 / DistUnits.
DistUnits == MaxChunks + 1

SearchResult(chunk_id, content, headings, page_number, score, source) ==
    [chunk_id |-> chunk_id, content |-> content, headings |-> headings,
     page_number |-> page_number, score |-> score, source |-> source]

\* ------------------------------------------------------------------- state
VARIABLES
    chunks,           \* table chunks joined with chunk_metadata: chunk_id -> row
    embeddings,       \* table embeddings: chunk_id -> distance of the stored
                      \* vector from the embedding of `query`
    chunks_fts,       \* table chunks_fts: chunk_id -> indexed content
    bm25,             \* chunk_id -> raw bm25(chunks_fts) of the row for `query`
    HAS_EMBEDDER,     \* sentence_transformers could be imported
    HAS_SQLITE_VEC,   \* sqlite_vec could be imported
    query,            \* the query string of this session
    op,               \* the last operation and its argument
    index_log,        \* the index queries the last operation issued, in order
    vector_results,   \* search_hybrid's vector lane
    keyword_results,  \* search_hybrid's keyword lane
    scores,           \* search_hybrid's fusion dict, in insertion order
    results,          \* the value the last operation returned
    raised,           \* the exception the last operation let through to its
                      \* caller, NULL when it returned
    high_risk_terms,  \* BrainOneSearch.high_risk_terms: the rows of table
                      \* high_risk_terms as (term, category, severity)
    ollama,           \* the generation requests the last operation sent to
                      \* the backend, each with the outcome it got, in order
    frame,            \* the locals of the ClinicalRAGPipeline.query call in
                      \* progress and the position it has reached
    backend,          \* what the backend has ready for a generation request
                      \* made outside a query call: a text, or a failure
    db_file,          \* the database file an ingestion or review session
                      \* works on: the committed rows of every table, which
                      \* is what any other connection reads
    db_conn,          \* the same tables as GuidelineDatabase.conn sees them:
                      \* the committed rows and its own open transaction
    ingested          \* the doc_ids of the run_pipeline calls that returned

vars == <<chunks, embeddings, chunks_fts, bm25, HAS_EMBEDDER, HAS_SQLITE_VEC,
          query, op, index_log, vector_results, keyword_results, scores, results,
          raised, high_risk_terms, ollama, frame, backend, db_file, db_conn,
          ingested>>

store == <<chunks, embeddings, chunks_fts, bm25, HAS_EMBEDDER, HAS_SQLITE_VEC, query,
           high_risk_terms, db_file, db_conn, ingested>>

\* What a serving session holds; an ingestion or review session has none of it.
serving == <<chunks, embeddings, chunks_fts, bm25, HAS_EMBEDDER, HAS_SQLITE_VEC, query,
             high_risk_terms, index_log, vector_results, keyword_results, scores,
             ollama, backend>>

\* ----------------------------------------------------------- sequence help
Range(s) == { s[i] : i \in DOMAIN s }
Take(s, n) == SubSeq(s, 1, IF n < Len(s) THEN n ELSE Len(s))
Injective(f) == \A a, b \in DOMAIN f : f[a] = f[b] => a = b
Perms(S) == { f \in [1..Cardinality(S) -> S] : Injective(f) }

\* ORDER BY key (ascending) over the rows ids, keys pairwise distinct.
RECURSIVE OrderBy(_, _)
OrderBy(ids, key) ==
    IF ids = {} THEN <<>>
    ELSE LET first == CHOOSE c \in ids : \A d \in ids : key[c] <= key[d]
         IN <<first>> \o OrderBy(ids \ {first}, key)

\* ------------------------------------------------------------ string help
\* str.lower() and str.upper(), symbol by symbol: a symbol that is spelled
\* with capitals has a lower-case counterpart and the other way round.
Lower(ch) ==
    CASE ch = "A" -> "a"
      [] ch = "B" -> "b"
      [] ch = "OVERALL:" -> "overall:"
      [] ch = "Overall:" -> "overall:"
      [] ch = "PASS" -> "pass"
      [] ch = "Pass" -> "pass"
      [] ch = "FAIL" -> "fail"
      [] ch = "_WITH_WARNINGS" -> "_with_warnings"
      [] OTHER -> ch
Upper(ch) ==
    CASE ch = "a" -> "A"
      [] ch = "b" -> "B"
      [] ch = "overall:" -> "OVERALL:"
      [] ch = "Overall:" -> "OVERALL:"
      [] ch = "pass" -> "PASS"
      [] ch = "Pass" -> "PASS"
      [] ch = "fail" -> "FAIL"
      [] ch = "_with_warnings" -> "_WITH_WARNINGS"
      [] OTHER -> ch
StrLower(s) == [i \in DOMAIN s |-> Lower(s[i])]
\* Mutant: upper() leaves the string as it came.
StrUpper_AsIs(s) == s
StrUpper(s) == [i \in DOMAIN s |-> Upper(s[i])]

\* needle in hay
IsSubstring(needle, hay) ==
    \E i \in 0..(Len(hay) - Len(needle)) :
        SubSeq(hay, i + 1, i + Len(needle)) = needle

\* The order of symbols in comparisons of strings (code points: space,
\* then capitals, then small letters).
CharCode(ch) ==
    CASE ch = "sp" -> 32
      [] ch = "A" -> 65
      [] ch = "B" -> 66
      [] ch = "a" -> 97
      [] ch = "b" -> 98
      [] ch = "w1" -> 119
      [] ch = "w2" -> 120
      [] OTHER -> 121

\* a < b for two strings
RECURSIVE StrLess(_, _)
StrLess(a, b) ==
    IF b = <<>> THEN FALSE
    ELSE IF a = <<>> THEN TRUE
    ELSE IF CharCode(Head(a)) # CharCode(Head(b))
         THEN CharCode(Head(a)) < CharCode(Head(b))
         ELSE StrLess(Tail(a), Tail(b))

\* ------------------------------------------------------------ vector lane
\* json.loads(row["headings_json"]) if row["headings_json"] else []
Headings(headings_json) == IF headings_json = NULL THEN <<>> ELSE headings_json

\* The rows of search_vector's SELECT: the k nearest embeddings by distance,
\* inner-joined with chunks (an embedding without a chunk row yields no row).
RECURSIVE JoinChunks(_)
JoinChunks(ids) ==
    IF ids = <<>> THEN <<>>
    ELSE LET c == Head(ids)
             rest == JoinChunks(Tail(ids))
         IN IF c \in DOMAIN chunks
            THEN <<[chunk_id |-> c, distance |-> embeddings[c],
                    content |-> chunks[c].content,
                    page_number |-> chunks[c].page_number,
                    category |-> chunks[c].category,
                    headings_json |-> chunks[c].headings_json]>> \o rest
            ELSE rest

KnnRows(k) == JoinChunks(Take(OrderBy(DOMAIN embeddings, embeddings), k))

\* The filter loop of search_vector over rows[i..], results so far in acc.
RECURSIVE VectorLoop(_, _, _, _)
VectorLoop(rows, i, acc, k) ==
    IF i > Len(rows) THEN acc
    ELSE LET row == rows[i]
         IN IF row.category = CHUNK_CATEGORY_METADATA
            THEN VectorLoop(rows, i + 1, acc, k)
            ELSE IF StrLen(StrStrip(row.content)) < MIN_CONTENT_CHARS
            THEN VectorLoop(rows, i + 1, acc, k)
            ELSE LET next == Append(acc,
                        SearchResult(row.chunk_id, row.content,
                                     Headings(row.headings_json), row.page_number,
                                     Frac(DistUnits - row.distance, DistUnits),
                                     "vector"))
                 IN IF Len(next) >= k THEN next
                    ELSE VectorLoop(rows, i + 1, next, k)

\* search_vector returns [] without a query when a dependency is missing.
VectorAvailable == HAS_EMBEDDER /\ HAS_SQLITE_VEC

\* Mutant: the index is asked for k candidates, not k * 3.
search_vector_FetchK(q, k) ==
    IF ~VectorAvailable THEN <<>>
    ELSE VectorLoop(KnnRows(k), 1, <<>>, k)

search_vector(q, k) ==
    IF ~VectorAvailable THEN <<>>
    ELSE VectorLoop(KnnRows(k * FETCH_FACTOR), 1, <<>>, k)

\* The index queries search_vector issues.
search_vector_log(q, k) ==
    IF ~VectorAvailable THEN <<>>
    ELSE <<[index |-> "embeddings", k |-> k * FETCH_FACTOR]>>

\* ----------------------------------------------------------- keyword lane
\* A query string is a sequence of symbols: "sp" is a whitespace character,
\* "dq" a double quote, any other symbol a whole word.
IsSpace(ch) == ch = "sp"

\* str.strip(): leading and trailing whitespace removed.
RECURSIVE LStrip(_)
LStrip(s) == IF s # <<>> /\ IsSpace(Head(s)) THEN LStrip(Tail(s)) ELSE s
RECURSIVE RStrip(_)
RStrip(s) ==
    IF s # <<>> /\ IsSpace(s[Len(s)]) THEN RStrip(SubSeq(s, 1, Len(s) - 1)) ELSE s
PyStrip(s) == RStrip(LStrip(s))

\* Mutant: str.split(" "), which yields one empty term for an empty string.
PySplit_OnSpace(s) == IF s = <<>> THEN << <<>> >> ELSE <<s>>

\* str.split(): the maximal runs of non-whitespace characters, in order.
RECURSIVE SplitLoop(_, _, _)
SplitLoop(s, cur, out) ==
    IF s = <<>> THEN (IF cur = <<>> THEN out ELSE Append(out, cur))
    ELSE IF IsSpace(Head(s))
         THEN SplitLoop(Tail(s), <<>>, IF cur = <<>> THEN out ELSE Append(out, cur))
         ELSE SplitLoop(Tail(s), Append(cur, Head(s)), out)
PySplit(s) == SplitLoop(s, <<>>, <<>>)

\* " OR ".join(f'"{term}"' for term in terms)
RECURSIVE FtsQuery(_)
FtsQuery(terms) ==
    IF terms = <<>> THEN <<>>
    ELSE LET quoted == <<"dq">> \o Head(terms) \o <<"dq">>
         IN IF Len(terms) = 1 THEN quoted
            ELSE quoted \o <<"sp", "OR", "sp">> \o FtsQuery(Tail(terms))

\* FTS5 rejects a MATCH expression whose last string is left open, which is
\* the case when it holds an odd number of double quotes
\* (sqlite3.OperationalError: unterminated string).
CountQuotes(expr) == Cardinality({ i \in DOMAIN expr : expr[i] = "dq" })
Fts5Rejects(expr) == CountQuotes(expr) % 2 = 1

\* The words of an accepted expression: a word symbol between two symbols
\* that are not words is one phrase of one token; phrases are joined by OR.
IsWord(ch) == ch \notin {"sp", "dq", "OR"}
Fts5Words(expr) ==
    { expr[i] : i \in { j \in DOMAIN expr :
          /\ IsWord(expr[j])
          /\ (j > 1 => ~IsWord(expr[j - 1]))
          /\ (j < Len(expr) => ~IsWord(expr[j + 1])) } }
Fts5Matches(expr, content) == Fts5Words(expr) \cap content.tokens # {}

\* Mutant: the SELECT without AND c.category = 'content'.
FtsRows_AnyCategory(expr, k) ==
    LET hit == { c \in DOMAIN chunks_fts :
                    /\ Fts5Matches(expr, chunks_fts[c])
                    /\ c \in DOMAIN chunks }
    IN Take(OrderBy(hit, bm25), k)

\* The rows of search_keyword's SELECT: FTS rows matching the expression,
\* joined with chunks, WHERE category = 'content', ORDER BY bm25, LIMIT k.
FtsRows(expr, k) ==
    LET hit == { c \in DOMAIN chunks_fts :
                    /\ Fts5Matches(expr, chunks_fts[c])
                    /\ c \in DOMAIN chunks
                    /\ chunks[c].category = CHUNK_CATEGORY_CONTENT }
    IN Take(OrderBy(hit, bm25), k)

KeywordResult(c) ==
    SearchResult(c, chunks[c].content, Headings(chunks[c].headings_json),
                 chunks[c].page_number, Frac(Abs(bm25[c]), 1), "keyword")

search_keyword(q, k) ==
    LET terms == PySplit(PyStrip(q))
    IN IF terms = <<>> THEN <<>>
       ELSE IF Fts5Rejects(FtsQuery(terms)) THEN <<>>
       ELSE LET rows == FtsRows(FtsQuery(terms), k)
            IN [i \in DOMAIN rows |-> KeywordResult(rows[i])]

\* The index queries search_keyword issues.
search_keyword_log(q, k) ==
    LET terms == PySplit(PyStrip(q))
    IN IF terms = <<>> THEN <<>>
       ELSE <<[index |-> "chunks_fts", k |-> k]>>

\* GuidelineDatabase.search_keyword builds the same expression and runs the
\* same SELECT, with the category filter only when content_only is set, and
\* has no handler around the query: a rejected expression leaves the call as
\* sqlite3.OperationalError.
OperationalError == "sqlite3.OperationalError"

DbSearchResult(c) ==
    [chunk_id |-> c, content |-> chunks[c].content,
     page_number |-> chunks[c].page_number, distance |-> Frac(Abs(bm25[c]), 1),
     headings |-> Headings(chunks[c].headings_json),
     category |-> chunks[c].category]

\* The rows of the SELECT without the category filter.
DbFtsRows(expr, k, content_only) ==
    LET hit == { c \in DOMAIN chunks_fts :
                    /\ Fts5Matches(expr, chunks_fts[c])
                    /\ c \in DOMAIN chunks
                    /\ content_only => chunks[c].category = CHUNK_CATEGORY_CONTENT }
    IN Take(OrderBy(hit, bm25), k)

\* The exception GuidelineDatabase.search_keyword leaves with, NULL if none.
db_search_keyword_raises(q) ==
    LET terms == PySplit(PyStrip(q))
    IN IF terms # <<>> /\ Fts5Rejects(FtsQuery(terms)) THEN OperationalError
       ELSE NULL

\* The list GuidelineDatabase.search_keyword returns when it returns.
db_search_keyword(q, k, content_only) ==
    LET terms == PySplit(PyStrip(q))
    IN IF terms = <<>> THEN <<>>
       ELSE LET rows == DbFtsRows(FtsQuery(terms), k, content_only)
            IN [i \in DOMAIN rows |-> DbSearchResult(rows[i])]

\* ---------------------------------------------------------------- RRF fuse
\* Mutant: the rank is taken as it is, without the + 1.
RrfScore_NoPlusOne(rank) == Frac(1, RRF_K + rank)

\* rrf_score = 1.0 / (RRF_K + rank + 1), rank zero-based.
RrfScore(rank) == Frac(1, RRF_K + rank + 1)

\* The dict scores (chunk_id -> (rrf_score, SearchResult)) is a sequence of
\* entries in insertion order, which is the order dict.values() yields.
Entry(chunk_id, rrf_score, result) ==
    [chunk_id |-> chunk_id, rrf_score |-> rrf_score, result |-> result]
HasKey(sc, chunk_id) == \E i \in DOMAIN sc : sc[i].chunk_id = chunk_id
KeyIndex(sc, chunk_id) == CHOOSE i \in DOMAIN sc : sc[i].chunk_id = chunk_id

\* Body of the loop over vector_results: an existing key gets the sum and
\* the new result object.
UpsertVector(sc, rrf_score, result) ==
    IF HasKey(sc, result.chunk_id)
    THEN LET i == KeyIndex(sc, result.chunk_id)
         IN [sc EXCEPT ![i] = Entry(result.chunk_id,
                                    FAdd(sc[i].rrf_score, rrf_score), result)]
    ELSE Append(sc, Entry(result.chunk_id, rrf_score, result))

\* Mutant: the keyword loop never looks the key up.
UpsertKeyword_NoDedup(sc, rrf_score, result) ==
    Append(sc, Entry(result.chunk_id, rrf_score, result))

\* Mutant: the keyword loop stores the new result object, as the vector loop does.
UpsertKeyword_TakesLater(sc, rrf_score, result) ==
    UpsertVector(sc, rrf_score, result)

\* Body of the loop over keyword_results: an existing key gets the sum and
\* keeps the result object it already holds.
UpsertKeyword(sc, rrf_score, result) ==
    IF HasKey(sc, result.chunk_id)
    THEN LET i == KeyIndex(sc, result.chunk_id)
         IN [sc EXCEPT ![i] = Entry(result.chunk_id,
                                    FAdd(sc[i].rrf_score, rrf_score), sc[i].result)]
    ELSE Append(sc, Entry(result.chunk_id, rrf_score, result))

\* for rank, result in enumerate(vector_results), from list index i on.
RECURSIVE FuseVector(_, _, _)
FuseVector(sc, lane, i) ==
    IF i > Len(lane) THEN sc
    ELSE FuseVector(UpsertVector(sc, RrfScore(i - 1), lane[i]), lane, i + 1)

\* for rank, result in enumerate(keyword_results), from list index i on.
RECURSIVE FuseKeyword(_, _, _)
FuseKeyword(sc, lane, i) ==
    IF i > Len(lane) THEN sc
    ELSE FuseKeyword(UpsertKeyword(sc, RrfScore(i - 1), lane[i]), lane, i + 1)

\* Mutant: the vector lane is left out of the fusion.
Fuse_KeywordOnly(vector_lane, keyword_lane) ==
    FuseKeyword(<<>>, keyword_lane, 1)

\* The two loops of search_hybrid, the vector lane first.
Fuse(vector_lane, keyword_lane) ==
    FuseKeyword(FuseVector(<<>>, vector_lane, 1), keyword_lane, 1)

\* Mutant: an entry goes before the entries of equal score.
RECURSIVE InsertDesc_Unstable(_, _)
InsertDesc_Unstable(sorted, e) ==
    IF sorted = <<>> THEN <<e>>
    ELSE IF ~FLess(e.rrf_score, Head(sorted).rrf_score)
         THEN <<e>> \o sorted
         ELSE <<Head(sorted)>> \o InsertDesc_Unstable(Tail(sorted), e)

\* sorted(..., key=lambda x: x[0], reverse=True): a stable sort, so entries
\* of equal score keep their order. e goes before the first entry of
\* strictly smaller score.
RECURSIVE InsertDesc(_, _)
InsertDesc(sorted, e) ==
    IF sorted = <<>> THEN <<e>>
    ELSE IF FLess(Head(sorted).rrf_score, e.rrf_score)
         THEN <<e>> \o sorted
         ELSE <<Head(sorted)>> \o InsertDesc(Tail(sorted), e)

\* Mutant: the sort without reverse=True.
RECURSIVE InsertAsc(_, _)
InsertAsc(sorted, e) ==
    IF sorted = <<>> THEN <<e>>
    ELSE IF FLess(e.rrf_score, Head(sorted).rrf_score)
         THEN <<e>> \o sorted
         ELSE <<Head(sorted)>> \o InsertAsc(Tail(sorted), e)
RECURSIVE SortLoopAsc(_, _, _)
SortLoopAsc(entries, i, sorted) ==
    IF i > Len(entries) THEN sorted
    ELSE SortLoopAsc(entries, i + 1, InsertAsc(sorted, entries[i]))
SortedByScore_Ascending(entries) == SortLoopAsc(entries, 1, <<>>)

RECURSIVE SortLoop(_, _, _)
SortLoop(entries, i, sorted) ==
    IF i > Len(entries) THEN sorted
    ELSE SortLoop(entries, i + 1, InsertDesc(sorted, entries[i]))
SortedByScore(entries) == SortLoop(entries, 1, <<>>)

\* Mutant: the slice takes one element too many.
PySlice_OneMore(s, n) == SubSeq(s, 1, IF n + 1 < Len(s) THEN n + 1 ELSE Len(s))

\* sorted_results[:top_k], top_k >= 0
PySlice(s, n) == SubSeq(s, 1, IF n < Len(s) THEN n ELSE Len(s))

HybridResult(e) ==
    SearchResult(e.result.chunk_id, e.result.content, e.result.headings,
                 e.result.page_number, e.rrf_score, "hybrid")

\* The list search_hybrid returns for the two lanes.
HybridList(vector_lane, keyword_lane, top_k) ==
    LET sorted_results == PySlice(SortedByScore(Fuse(vector_lane, keyword_lane)), top_k)
    IN [i \in DOMAIN sorted_results |-> HybridResult(sorted_results[i])]

search_hybrid(q, top_k) ==
    HybridList(search_vector(q, LANE_K), search_keyword(q, LANE_K), top_k)

\* The index queries search_hybrid issues: both sub-searches, always.
search_hybrid_log(q, top_k) ==
    search_vector_log(q, LANE_K) \o search_keyword_log(q, LANE_K)

\* ----------------------------------------------------------------- prompts
SEVERITY_HIGH == "High"
SEVERITY_MEDIUM == "Medium"

\* clinical_prompts.HighRiskAlertContext
HighRiskAlertContext(term, category, severity) ==
    [term |-> term, category |-> category, severity |-> severity]

\* clinical_prompts.ChunkContext
ChunkContext(content, headings, page_number, score) ==
    [content |-> content, headings |-> headings, page_number |-> page_number,
     score |-> score]

\* sep.join(strs) for strings of characters
RECURSIVE JoinStrings(_, _)
JoinStrings(sep, strs) ==
    IF strs = <<>> THEN ""
    ELSE IF Len(strs) = 1 THEN Head(strs)
    ELSE Head(strs) \o sep \o JoinStrings(sep, Tail(strs))

\* " > ".join(chunk.headings) if chunk.headings else "General"
HeadingPath(headings) ==
    IF headings # <<>> THEN JoinStrings(" > ", headings) ELSE "General"

\* f" (p.{chunk.page_number})" if chunk.page_number else ""
PageInfo(page_number) ==
    IF page_number # NO_PAGE /\ page_number # 0
    THEN " (p." \o ToString(page_number) \o ")"
    ELSE ""

\* A piece of prompt text: literal characters followed by a content string.
Piece(chars, content) == [chars |-> chars, content |-> content]
EMPTY_CONTENT == Content(0, 0, {}, <<>>)
Literal(chars) == Piece(chars, EMPTY_CONTENT)

\* len() of a piece and of a text made of pieces
PieceLen(p) == Len(p.chars) + StrLen(p.content)
RECURSIVE TextLen(_)
TextLen(text) == IF text = <<>> THEN 0 ELSE PieceLen(Head(text)) + TextLen(Tail(text))

\* entry = f"[{i}] {heading_path}{page_info}\n{chunk.content}"
PromptEntry(i, chunk) ==
    Piece("[" \o ToString(i) \o "] " \o HeadingPath(chunk.headings)
              \o PageInfo(chunk.page_number) \o "\n",
          chunk.content)

\* The loop of format_chunks_for_prompt from list index i on: the list
\* formatted so far and total_chars.
RECURSIVE FormatLoop(_, _, _, _, _)
FormatLoop(chunk_list, i, formatted, total_chars, max_chars) ==
    IF i > Len(chunk_list) THEN formatted
    ELSE LET entry == PromptEntry(i, chunk_list[i])
         IN IF total_chars + PieceLen(entry) > max_chars THEN formatted
            ELSE FormatLoop(chunk_list, i + 1, Append(formatted, entry),
                            total_chars + PieceLen(entry), max_chars)

\* "\n\n".join(formatted)
RECURSIVE JoinBlankLine(_)
JoinBlankLine(formatted) ==
    IF formatted = <<>> THEN <<>>
    ELSE IF Len(formatted) = 1 THEN formatted
    ELSE <<Head(formatted), Literal("\n\n")>> \o JoinBlankLine(Tail(formatted))

format_chunks_for_prompt(chunk_list, max_chars) ==
    JoinBlankLine(FormatLoop(chunk_list, 1, <<>>, 0, max_chars))

\* A line of prompt text: a fixed label followed by text given symbol by
\* symbol.
Line(label, text) == [label |-> label, text |-> text]

\* ", ".join(a.term for a in alerts)
RECURSIVE JoinTerms(_)
JoinTerms(alerts) ==
    IF alerts = <<>> THEN <<>>
    ELSE IF Len(alerts) = 1 THEN Head(alerts).term
    ELSE Head(alerts).term \o <<",", "sp">> \o JoinTerms(Tail(alerts))

\* Mutant: the Medium alerts are not collected.
MediumAlerts_None(alerts) == <<>>

\* [a for a in alerts if a.severity == "High"] and the same for "Medium"
IsHigh(a) == a.severity = SEVERITY_HIGH
IsMedium(a) == a.severity = SEVERITY_MEDIUM
HighAlerts(alerts) == SelectSeq(alerts, IsHigh)
MediumAlerts(alerts) == SelectSeq(alerts, IsMedium)

\* format_alerts_for_prompt: the lines of the returned string, none for "".
format_alerts_for_prompt(alerts) ==
    IF alerts = <<>> THEN <<>>
    ELSE (IF HighAlerts(alerts) # <<>>
          THEN <<Line("DANGER SIGNS DETECTED: ", JoinTerms(HighAlerts(alerts)))>>
          ELSE <<>>)
         \o
         (IF MediumAlerts(alerts) # <<>>
          THEN <<Line("Caution terms found: ", JoinTerms(MediumAlerts(alerts)))>>
          ELSE <<>>)

\* An Optional[List[...]] argument: None, or the list it holds.
None == <<>>
Some(list) == <<list>>

\* alerts or []
OrEmpty(alerts) == IF alerts = None THEN <<>> ELSE alerts[1]

\* The alert_section of synthesis_prompt: empty unless alert_text is
\* non-empty (the warning sign before SAFETY ALERTS is left out).
AlertSection(alert_text) ==
    IF alert_text = <<>> THEN <<>>
    ELSE <<Line("SAFETY ALERTS:", <<>>)>> \o alert_text
         \o <<Line("You MUST prominently address these safety concerns in your response.",
                   <<>>)>>

DEFAULT_SYNTHESIS_CONTEXT_CHARS == 4000
DEFAULT_GUARDRAIL_CONTEXT_CHARS == 3000

\* synthesis_prompt: the fixed template with the values of its three
\* fields (context, alert_section, query).
synthesis_prompt(q, chunk_list, alerts) ==
    [template |-> "synthesis",
     context |-> format_chunks_for_prompt(chunk_list, DEFAULT_SYNTHESIS_CONTEXT_CHARS),
     alert_section |-> AlertSection(format_alerts_for_prompt(OrEmpty(alerts))),
     query |-> q]

\* guardrail_prompt: the fixed template with the values of its three
\* fields (context, query, summary).
guardrail_prompt(q, summary, chunk_list) ==
    [template |-> "guardrail",
     context |-> format_chunks_for_prompt(chunk_list, DEFAULT_GUARDRAIL_CONTEXT_CHARS),
     query |-> q,
     summary |-> summary]

\* ----------------------------------------------------------------- alerter
\* Mutant: the contents are put together without a separator.
RECURSIVE JoinSpace_NoSeparator(_)
JoinSpace_NoSeparator(strs) ==
    IF strs = <<>> THEN <<>>
    ELSE Head(strs) \o JoinSpace_NoSeparator(Tail(strs))

\* " ".join(strs)
RECURSIVE JoinSpace(_)
JoinSpace(strs) ==
    IF strs = <<>> THEN <<>>
    ELSE IF Len(strs) = 1 THEN Head(strs)
    ELSE Head(strs) \o <<"sp">> \o JoinSpace(Tail(strs))

\* all_content = " ".join(r.content.lower() for r in results)
AllContent(rs) == JoinSpace([i \in DOMAIN rs |-> StrLower(rs[i].content.text)])

\* The loop over self.high_risk_terms, from the rows terms on.
RECURSIVE DetectLoop(_, _, _, _)
DetectLoop(terms, all_content, alerts, seen_terms) ==
    IF terms = <<>> THEN alerts
    ELSE LET term == Head(terms)[1]
             category == Head(terms)[2]
             severity == Head(terms)[3]
         IN IF IsSubstring(StrLower(term), all_content) /\ term \notin seen_terms
            THEN DetectLoop(Tail(terms), all_content,
                            Append(alerts, HighRiskAlertContext(term, category, severity)),
                            seen_terms \cup {term})
            ELSE DetectLoop(Tail(terms), all_content, alerts, seen_terms)

\* Mutant: the sort key is the term alone.
AlertKeyLess_TermOnly(a, b) == StrLess(a.term, b.term)

\* key=lambda a: (0 if a.severity == "High" else 1, a.term), compared as tuples
SeverityKey(a) == IF a.severity = SEVERITY_HIGH THEN 0 ELSE 1
AlertKeyLess(a, b) ==
    \/ SeverityKey(a) < SeverityKey(b)
    \/ SeverityKey(a) = SeverityKey(b) /\ StrLess(a.term, b.term)

\* list.sort is stable: a goes before the first alert of strictly greater key.
RECURSIVE InsertAlert(_, _)
InsertAlert(sorted, a) ==
    IF sorted = <<>> THEN <<a>>
    ELSE IF AlertKeyLess(a, Head(sorted))
         THEN <<a>> \o sorted
         ELSE <<Head(sorted)>> \o InsertAlert(Tail(sorted), a)
RECURSIVE SortAlerts(_, _, _)
SortAlerts(alerts, i, sorted) ==
    IF i > Len(alerts) THEN sorted
    ELSE SortAlerts(alerts, i + 1, InsertAlert(sorted, alerts[i]))

detect_high_risk(rs) ==
    SortAlerts(DetectLoop(high_risk_terms, AllContent(rs), <<>>, {}), 1, <<>>)

\* ----------------------------------------------------------------- backend
\* What the backend does with one generation request: it answers with the
\* generated text, or requests.post / raise_for_status raises.
Reply(text) == [ok |-> TRUE, response |-> text, error |-> NULL]
Failure(error) == [ok |-> FALSE, response |-> <<>>, error |-> error]
GenerationErrors ==
    { "requests.Timeout", "requests.ConnectionError", "requests.HTTPError" }

SYNTHESIS_MAX_TOKENS == 512
GUARDRAIL_MAX_TOKENS == 300
\* Temperatures, in tenths.
SYNTHESIS_TEMPERATURE == 3
GUARDRAIL_TEMPERATURE == 1

\* One requests.post of BrainTwoSynthesis.generate with its outcome.
GenerateRequest(prompt, max_tokens, temperature, outcome) ==
    [prompt |-> prompt, max_tokens |-> max_tokens, temperature |-> temperature,
     outcome |-> outcome]

\* BrainTwoSynthesis.synthesize up to its call of generate: the request.
synthesize_request(q, found, alerts, outcome) ==
    LET chunk_contexts ==
            [i \in DOMAIN found |->
                ChunkContext(found[i].content, found[i].headings,
                             found[i].page_number, found[i].score)]
        alert_contexts == IF alerts # <<>> THEN Some(alerts) ELSE None
    IN GenerateRequest(synthesis_prompt(q, chunk_contexts, alert_contexts),
                       SYNTHESIS_MAX_TOKENS, SYNTHESIS_TEMPERATURE, outcome)

\* Mutant: the guardrail prompt is built without the chunks.
guardrail_request_NoChunks(q, summary, found, outcome) ==
    GenerateRequest(guardrail_prompt(q, summary, <<>>),
                    GUARDRAIL_MAX_TOKENS, GUARDRAIL_TEMPERATURE, outcome)

\* BrainTwoSynthesis.validate_guardrail up to its call of generate.
guardrail_request(q, summary, found, outcome) ==
    LET chunk_contexts ==
            [i \in DOMAIN found |->
                ChunkContext(found[i].content, found[i].headings,
                             found[i].page_number, found[i].score)]
    IN GenerateRequest(guardrail_prompt(q, summary, chunk_contexts),
                       GUARDRAIL_MAX_TOKENS, GUARDRAIL_TEMPERATURE, outcome)

\* "OVERALL: PASS" in validation.upper()
OVERALL_PASS == <<"OVERALL:", "sp", "PASS">>
GuardrailPassed(validation) == IsSubstring(OVERALL_PASS, StrUpper(validation))

\* return passed, validation
GuardrailVerdict(validation) ==
    [passed |-> GuardrailPassed(validation), validation |-> validation]

\* ---------------------------------------------------------------- pipeline
\* A request that has been sent and not answered yet.
Pending == [ok |-> FALSE, response |-> <<>>, error |-> "pending"]

\* Mutant: an exception of the generation call is swallowed.
RaisedBy_Swallowed(outcome) == NULL

\* The exception generate lets through for an outcome of the backend.
RaisedBy(outcome) == outcome.error

\* Mutant: the guardrail runs whatever run_guardrail says.
RunsGuardrail_Always(run_guardrail) == TRUE

\* if run_guardrail:
RunsGuardrail(run_guardrail) == run_guardrail

\* No query call is in progress.
NoFrame == [pc |-> "idle"]

\* The locals of ClinicalRAGPipeline.query; a local that is None or not
\* assigned yet holds None.
QueryFrame(pc, top_k, run_guardrail, found, alerts, summary, passed, validation) ==
    [pc |-> pc, top_k |-> top_k, run_guardrail |-> run_guardrail,
     chunks |-> found, alerts |-> alerts, summary |-> summary,
     guardrail_passed |-> passed, guardrail_result |-> validation]

\* SynthesisResult without its wall-clock timings.
SynthesisResult(q, summary, chunks_used, alerts, guardrail_result, guardrail_passed) ==
    [query |-> q, summary |-> summary, chunks_used |-> chunks_used,
     alerts |-> alerts, guardrail_result |-> guardrail_result,
     guardrail_passed |-> guardrail_passed]

\* ----------------------------------------------------------------- actions
Op(name, k) == [name |-> name, k |-> k]

\* BrainOneSearch.search_vector(query, k)
SearchVector(k) ==
    /\ op' = Op("search_vector", k)
    /\ results' = search_vector(query, k)
    /\ index_log' = search_vector_log(query, k)
    /\ vector_results' = <<>>
    /\ keyword_results' = <<>>
    /\ scores' = <<>>
    /\ raised' = NULL
    /\ ollama' = <<>>
    /\ UNCHANGED <<store, backend, frame>>

\* BrainOneSearch.search_keyword(query, k)
SearchKeyword(k) ==
    /\ op' = Op("search_keyword", k)
    /\ results' = search_keyword(query, k)
    /\ index_log' = search_keyword_log(query, k)
    /\ vector_results' = <<>>
    /\ keyword_results' = <<>>
    /\ scores' = <<>>
    /\ raised' = NULL
    /\ ollama' = <<>>
    /\ UNCHANGED <<store, backend, frame>>

\* BrainOneSearch.search_hybrid(query, top_k)
SearchHybrid(top_k) ==
    /\ op' = Op("search_hybrid", top_k)
    /\ vector_results' = search_vector(query, LANE_K)
    /\ keyword_results' = search_keyword(query, LANE_K)
    /\ scores' = Fuse(search_vector(query, LANE_K), search_keyword(query, LANE_K))
    /\ results' = search_hybrid(query, top_k)
    /\ index_log' = search_hybrid_log(query, top_k)
    /\ raised' = NULL
    /\ ollama' = <<>>
    /\ UNCHANGED <<store, backend, frame>>

\* An operation that takes values rather than a count.
Call(name, args) == [name |-> name, args |-> args]

\* BrainOneSearch.detect_high_risk(rs)
DetectHighRisk(rs) ==
    /\ op' = Call("detect_high_risk", rs)
    /\ results' = detect_high_risk(rs)
    /\ raised' = NULL
    /\ ollama' = <<>>
    /\ UNCHANGED <<store, backend, index_log, vector_results, keyword_results, scores, frame>>

\* format_chunks_for_prompt(chunk_list, max_chars)
FormatChunks(chunk_list, max_chars) ==
    /\ op' = Call("format_chunks_for_prompt",
                  [chunks |-> chunk_list, max_chars |-> max_chars])
    /\ results' = format_chunks_for_prompt(chunk_list, max_chars)
    /\ raised' = NULL
    /\ ollama' = <<>>
    /\ UNCHANGED <<store, backend, index_log, vector_results, keyword_results, scores, frame>>

\* synthesis_prompt(q, chunk_list, alerts)
SynthesisPrompt(q, chunk_list, alerts) ==
    /\ op' = Call("synthesis_prompt",
                  [query |-> q, chunks |-> chunk_list, alerts |-> alerts])
    /\ results' = synthesis_prompt(q, chunk_list, alerts)
    /\ raised' = NULL
    /\ ollama' = <<>>
    /\ UNCHANGED <<store, backend, index_log, vector_results, keyword_results, scores, frame>>

\* BrainTwoSynthesis.validate_guardrail(q, summary, found), the backend
\* giving outcome to the generation request.
ValidateGuardrail(q, summary, found, outcome) ==
    /\ op' = Call("validate_guardrail",
                  [query |-> q, summary |-> summary, chunks |-> found])
    /\ ollama' = <<guardrail_request(q, summary, found, outcome)>>
    /\ raised' = outcome.error
    /\ results' = IF outcome.ok THEN GuardrailVerdict(outcome.response) ELSE <<>>
    /\ UNCHANGED <<store, backend, index_log, vector_results, keyword_results, scores, frame>>

\* GuidelineDatabase.search_keyword(query, k, content_only)
DbSearchKeyword(k, content_only) ==
    /\ op' = Op("db_search_keyword", k)
    /\ raised' = db_search_keyword_raises(query)
    /\ results' = IF db_search_keyword_raises(query) # NULL THEN <<>>
                  ELSE db_search_keyword(query, k, content_only)
    /\ index_log' = search_keyword_log(query, k)
    /\ vector_results' = <<>>
    /\ keyword_results' = <<>>
    /\ scores' = <<>>
    /\ ollama' = <<>>
    /\ UNCHANGED <<store, backend, frame>>

\* ClinicalRAGPipeline.query(query, top_k, run_guardrail), first part:
\* retrieval (search_hybrid) and alerting (detect_high_risk).
QueryRetrieve(top_k, run_guardrail) ==
    /\ frame.pc = "idle"
    /\ op' = Call("query", [top_k |-> top_k, run_guardrail |-> run_guardrail])
    /\ vector_results' = search_vector(query, LANE_K)
    /\ keyword_results' = search_keyword(query, LANE_K)
    /\ scores' = Fuse(search_vector(query, LANE_K), search_keyword(query, LANE_K))
    /\ index_log' = search_hybrid_log(query, top_k)
    /\ frame' = QueryFrame("searched", top_k, run_guardrail,
                           search_hybrid(query, top_k),
                           detect_high_risk(search_hybrid(query, top_k)),
                           None, None, None)
    /\ results' = <<>>
    /\ raised' = NULL
    /\ ollama' = <<>>
    /\ UNCHANGED <<store, backend>>

\* query, second part: synthesize builds the prompt and generate posts it.
QuerySynthesize ==
    /\ frame.pc = "searched"
    /\ ollama' = Append(ollama,
                        synthesize_request(query, frame.chunks, frame.alerts, Pending))
    /\ frame' = [frame EXCEPT !.pc = "synthesizing"]
    /\ UNCHANGED <<store, backend, op, index_log, vector_results, keyword_results, scores,
                   results, raised>>

\* The backend answers the synthesis request or the call fails: the text
\* becomes summary, an exception ends the query call.
SynthesisOutcome(outcome) ==
    /\ frame.pc = "synthesizing"
    /\ ollama' = [ollama EXCEPT ![Len(ollama)].outcome = outcome]
    /\ IF outcome.ok
       THEN /\ frame' = [frame EXCEPT !.pc = "synthesized",
                                      !.summary = Some(outcome.response)]
            /\ raised' = raised
       ELSE /\ frame' = NoFrame
            /\ raised' = RaisedBy(outcome)
    /\ UNCHANGED <<store, backend, op, index_log, vector_results, keyword_results, scores,
                   results>>

\* query, third part: with run_guardrail set, validate_guardrail builds its
\* prompt from query, summary and chunks and generate posts it.
QueryValidate ==
    /\ frame.pc = "synthesized"
    /\ RunsGuardrail(frame.run_guardrail)
    /\ ollama' = Append(ollama,
                        guardrail_request(query, frame.summary[1], frame.chunks, Pending))
    /\ frame' = [frame EXCEPT !.pc = "validating"]
    /\ UNCHANGED <<store, backend, op, index_log, vector_results, keyword_results, scores,
                   results, raised>>

\* The backend answers the guardrail request or the call fails.
GuardrailOutcome(outcome) ==
    /\ frame.pc = "validating"
    /\ ollama' = [ollama EXCEPT ![Len(ollama)].outcome = outcome]
    /\ IF outcome.ok
       THEN /\ frame' = [frame EXCEPT
                            !.pc = "validated",
                            !.guardrail_passed =
                                Some(GuardrailVerdict(outcome.response).passed),
                            !.guardrail_result =
                                Some(GuardrailVerdict(outcome.response).validation)]
            /\ raised' = raised
       ELSE /\ frame' = NoFrame
            /\ raised' = RaisedBy(outcome)
    /\ UNCHANGED <<store, backend, op, index_log, vector_results, keyword_results, scores,
                   results>>

\* query, last part: the SynthesisResult is returned.
QueryReturn ==
    /\ \/ frame.pc = "validated"
       \/ frame.pc = "synthesized" /\ ~RunsGuardrail(frame.run_guardrail)
    /\ results' = SynthesisResult(query, frame.summary[1], frame.chunks, frame.alerts,
                                  frame.guardrail_result, frame.guardrail_passed)
    /\ frame' = NoFrame
    /\ UNCHANGED <<store, backend, op, index_log, vector_results, keyword_results, scores,
                   raised, ollama>>

\* The summary of a search-only result.
SEARCH_ONLY_SUMMARY == <<"[Brain 2 not used - search-only mode]">>

\* Mutant: the search-only result carries no alerts.
SearchOnlyAlerts_None(found) == <<>>

\* alerts = self.brain1.detect_high_risk(chunks)
SearchOnlyAlerts(found) == detect_high_risk(found)

\* ClinicalRAGPipeline.query_search_only(query, top_k): retrieval, alerting
\* and the result; guardrail_result and guardrail_passed keep the None the
\* dataclass gives them.
QuerySearchOnly(top_k) ==
    /\ frame.pc = "idle"
    /\ op' = Call("query_search_only", [top_k |-> top_k])
    /\ vector_results' = search_vector(query, LANE_K)
    /\ keyword_results' = search_keyword(query, LANE_K)
    /\ scores' = Fuse(search_vector(query, LANE_K), search_keyword(query, LANE_K))
    /\ index_log' = search_hybrid_log(query, top_k)
    /\ results' = SynthesisResult(query, SEARCH_ONLY_SUMMARY,
                                  search_hybrid(query, top_k),
                                  SearchOnlyAlerts(search_hybrid(query, top_k)),
                                  None, None)
    /\ raised' = NULL
    /\ ollama' = <<>>
    /\ UNCHANGED <<store, backend, frame>>


\* ----------------------------------------------------------------- chunker
\* GuidelineChunker (chunker.py). Headings and chunk texts are strings of
\* characters.
METADATA_HEADING_PATTERNS ==
    << "contents", "table of contents", "abbreviations", "acronyms", "foreword",
       "preface", "acknowledgements", "acknowledgments", "credits", "contributors",
       "editorial", "index", "glossary", "references", "bibliography" >>

\* str.lower() of one character
AsciiLower(ch) ==
    CASE ch = "A" -> "a"
      [] ch = "B" -> "b"
      [] ch = "C" -> "c"
      [] ch = "D" -> "d"
      [] ch = "E" -> "e"
      [] ch = "F" -> "f"
      [] ch = "G" -> "g"
      [] ch = "H" -> "h"
      [] ch = "I" -> "i"
      [] ch = "J" -> "j"
      [] ch = "K" -> "k"
      [] ch = "L" -> "l"
      [] ch = "M" -> "m"
      [] ch = "N" -> "n"
      [] ch = "O" -> "o"
      [] ch = "P" -> "p"
      [] ch = "Q" -> "q"
      [] ch = "R" -> "r"
      [] ch = "S" -> "s"
      [] ch = "T" -> "t"
      [] ch = "U" -> "u"
      [] ch = "V" -> "v"
      [] ch = "W" -> "w"
      [] ch = "X" -> "x"
      [] ch = "Y" -> "y"
      [] ch = "Z" -> "z"
      [] OTHER -> ch

\* str.lower()
RECURSIVE LowerFrom(_, _)
LowerFrom(s, i) ==
    IF i > Len(s) THEN "" ELSE AsciiLower(SubSeq(s, i, i)) \o LowerFrom(s, i + 1)
TextLower(s) == LowerFrom(s, 1)

\* str.strip()
TextStrip(s) ==
    LET inked == { i \in 1..Len(s) : SubSeq(s, i, i) # " " }
    IN IF inked = {} THEN ""
       ELSE SubSeq(s, CHOOSE i \in inked : \A j \in inked : i <= j,
                      CHOOSE i \in inked : \A j \in inked : j <= i)

\* Mutant: a heading must equal a pattern.
HeadingMatches_Exact(pattern, heading) == pattern = TextStrip(TextLower(heading))

\* if pattern in heading_lower
HeadingMatches(pattern, heading) == IsSubstring(pattern, TextStrip(TextLower(heading)))

\* GuidelineChunker._determine_category(headings)
determine_category(headings) ==
    IF \E i \in DOMAIN headings, j \in DOMAIN METADATA_HEADING_PATTERNS :
           HeadingMatches(METADATA_HEADING_PATTERNS[j], headings[i])
    THEN CHUNK_CATEGORY_METADATA
    ELSE CHUNK_CATEGORY_CONTENT

\* GuidelineChunker._contextualize(chunk, headings)
contextualize(text, headings) ==
    IF headings # <<>>
    THEN JoinStrings(" ", << "[" \o JoinStrings(" > ", headings) \o "]", text >>)
    ELSE JoinStrings(" ", << text >>)

\* class ChunkData (database.py), the fields of class ChunkResult
ChunkData(chunk_id, content, contextualized_text, headings, category) ==
    [chunk_id |-> chunk_id, content |-> content,
     contextualized_text |-> contextualized_text, headings |-> headings,
     category |-> category]

\* A chunk as Docling's HybridChunker yields it: its text and meta.headings.
DocChunk(text, headings) == [text |-> text, headings |-> headings]

\* The ChunkResult that GuidelineChunker.chunk builds for a Docling chunk,
\* with the fields ChunkData takes from it; chunk_id is a new uuid4.
ChunkResult(chunk_id, doc_chunk) ==
    ChunkData(chunk_id, doc_chunk.text, contextualize(doc_chunk.text, doc_chunk.headings),
              doc_chunk.headings, determine_category(doc_chunk.headings))

\* SentenceTransformer.encode(text): the vector is a function of the text.
Embed(text) == [encodes |-> text]

\* ------------------------------------------------------------ corpus store
\* GuidelineDatabase (database.py) over one database file. A table is the
\* sequence of its rows in rowid order. Fields the operations copy verbatim
\* and never read (filename, title, version, extraction_date, page_count as
\* one `metadata`; chunk_type, page_number, bbox, element_label) are left out
\* of the chunk rows.
APPROVAL_PENDING == "pending"
APPROVAL_STATUSES == {"pending", "approved", "rejected"}
IntegrityError == "sqlite3.IntegrityError"
\* A doc_id no document has.
NO_SUCH_DOC == 0

DocumentRow(doc_id, metadata, approval_status, docling_json) ==
    [doc_id |-> doc_id, metadata |-> metadata, approval_status |-> approval_status,
     docling_json |-> docling_json]
ChunksTableRow(chunk_id, doc_id, content, contextualized_text, category) ==
    [chunk_id |-> chunk_id, doc_id |-> doc_id, content |-> content,
     contextualized_text |-> contextualized_text, category |-> category]
ChunkMetadataRow(chunk_id, headings_json) ==
    [chunk_id |-> chunk_id, headings_json |-> headings_json]
EmbeddingRow(chunk_id, embedding) == [chunk_id |-> chunk_id, embedding |-> embedding]
FtsRow(chunk_id, content) == [chunk_id |-> chunk_id, content |-> content]
HighRiskTermRow(term_id, term, category, severity) ==
    [term_id |-> term_id, term |-> term, category |-> category, severity |-> severity]

\* json.dumps / json.loads of a list of strings.
JsonDumps(value) == [json |-> value]
JsonLoads(text) == text.json

\* The tables of the file; sqlite_sequence holds the largest term_id that
\* AUTOINCREMENT has handed out for high_risk_terms.
Database(documents, chunk_rows, chunk_metadata, embedding_rows, fts_rows, terms, seq) ==
    [documents |-> documents, chunks |-> chunk_rows, chunk_metadata |-> chunk_metadata,
     embeddings |-> embedding_rows, chunks_fts |-> fts_rows, high_risk_terms |-> terms,
     sqlite_sequence |-> seq]

\* GuidelineDatabase.create_schema on a new file
EmptyDatabase == Database(<<>>, <<>>, <<>>, <<>>, <<>>, <<>>, 0)

DocIdsOf(rows) == { rows[i].doc_id : i \in DOMAIN rows }
ChunkIdsOf(rows) == { rows[i].chunk_id : i \in DOMAIN rows }
\* SELECT COUNT(*) FROM rows WHERE chunk_id = c
RowCount(rows, c) == Cardinality({ i \in DOMAIN rows : rows[i].chunk_id = c })

\* What an operation did: the tables as the connection sees them when it
\* is left, whether it reached self.conn.commit(), and the exception it let
\* through (NULL when it returned).
Outcome(conn, committed, exception) ==
    [conn |-> conn, committed |-> committed, raised |-> exception]

\* sqlite3 enforces FOREIGN KEY clauses only on a connection that has run
\* PRAGMA foreign_keys = ON; __init__ connects and loads sqlite-vec, no more.
FOREIGN_KEYS == FALSE
ForeignKeyFails(db, doc_id) == FOREIGN_KEYS /\ doc_id \notin DocIdsOf(db.documents)

\* doc_id = str(uuid.uuid4()): an id no row holds yet.
FreshDocId(db) == Len(db.documents) + 1

\* chunk_id=str(uuid.uuid4()): an id no row holds yet.
FreshChunkId(db) == Len(db.chunks) + 1

\* Mutant: insert_document stores a document as approved.
InsertedStatus_Approved == "approved"

\* VALUES (?, ?, ?, ?, ?, 'pending', ?, ?)
InsertedStatus == APPROVAL_PENDING

\* GuidelineDatabase.insert_document(metadata, docling_json)
insert_document(db, metadata, docling_json) ==
    Outcome([db EXCEPT !.documents =
                 Append(@, DocumentRow(FreshDocId(db), metadata, InsertedStatus,
                                       docling_json))],
            TRUE, NULL)

\* GuidelineDatabase.insert_chunk(doc_id, chunk). `fault` is the exception
\* raised after the INSERT INTO chunks and before the INSERT INTO
\* chunk_metadata has run (json.dumps on a value it cannot serialise, an
\* I/O error of the second statement, an interrupt), NULL when there is
\* none. No statement of the method is guarded, and nothing rolls back.
insert_chunk(db, doc_id, chunk, fault) ==
    IF ForeignKeyFails(db, doc_id) \/ chunk.chunk_id \in ChunkIdsOf(db.chunks)
    THEN Outcome(db, FALSE, IntegrityError)
    ELSE LET first == [db EXCEPT !.chunks =
                           Append(@, ChunksTableRow(chunk.chunk_id, doc_id, chunk.content,
                                                    chunk.contextualized_text,
                                                    chunk.category))]
         IN IF fault # NULL THEN Outcome(first, FALSE, fault)
            ELSE IF chunk.chunk_id \in ChunkIdsOf(db.chunk_metadata)
            THEN Outcome(first, FALSE, IntegrityError)
            ELSE Outcome([first EXCEPT !.chunk_metadata =
                              Append(@, ChunkMetadataRow(chunk.chunk_id,
                                                         JsonDumps(chunk.headings)))],
                         TRUE, NULL)

\* GuidelineDatabase.insert_embedding(chunk_id, embedding); the virtual
\* table declares chunk_id as its primary key.
insert_embedding(db, chunk_id, embedding) ==
    IF chunk_id \in ChunkIdsOf(db.embeddings)
    THEN Outcome(db, FALSE, IntegrityError)
    ELSE Outcome([db EXCEPT !.embeddings = Append(@, EmbeddingRow(chunk_id, embedding))],
                 TRUE, NULL)

\* for chunk_id, embedding in embeddings: INSERT ...
RECURSIVE BatchLoop(_, _, _)
BatchLoop(db, batch, i) ==
    IF i > Len(batch) THEN Outcome(db, TRUE, NULL)
    ELSE IF batch[i][1] \in ChunkIdsOf(db.embeddings)
    THEN Outcome(db, FALSE, IntegrityError)
    ELSE BatchLoop([db EXCEPT !.embeddings =
                        Append(@, EmbeddingRow(batch[i][1], batch[i][2]))],
                   batch, i + 1)

\* GuidelineDatabase.insert_embeddings_batch(embeddings)
insert_embeddings_batch(db, batch) == BatchLoop(db, batch, 1)

\* Mutant: the FTS rows are added to the ones already there.
FtsCleared_Kept(db) == db.chunks_fts

\* DELETE FROM chunks_fts
FtsCleared(db) == <<>>

\* INSERT INTO chunks_fts(chunk_id, content) SELECT chunk_id, content FROM chunks
FtsFromChunks(db) ==
    [i \in DOMAIN db.chunks |-> FtsRow(db.chunks[i].chunk_id, db.chunks[i].content)]

\* GuidelineDatabase.populate_fts5()
populate_fts5(db) ==
    Outcome([db EXCEPT !.chunks_fts = FtsCleared(db) \o FtsFromChunks(db)], TRUE, NULL)

\* GuidelineDatabase.update_approval_status(doc_id, status)
update_approval_status(db, doc_id, status) ==
    Outcome([db EXCEPT !.documents =
                 [i \in DOMAIN @ |->
                      IF @[i].doc_id = doc_id
                      THEN [@[i] EXCEPT !.approval_status = status]
                      ELSE @[i]]],
            TRUE, NULL)

\* GuidelineDatabase.HIGH_RISK_TERMS
HIGH_RISK_TERMS ==
    << <<"danger sign", "General", "High">>, <<"danger signs", "General", "High">>,
       <<"life-threatening", "General", "High">>,
       <<"life threatening", "General", "High">>, <<"severe", "General", "Medium">>,
       <<"refer immediately", "Referral", "High">>,
       <<"emergency referral", "Referral", "High">>,
       <<"refer to health facility", "Referral", "Medium">>,
       <<"refer to hospital", "Referral", "High">>,
       <<"urgent referral", "Referral", "High">>,
       <<"convulsions", "Neurological", "High">>,
       <<"convulsion", "Neurological", "High">>,
       <<"unconscious", "Neurological", "High">>,
       <<"loss of consciousness", "Neurological", "High">>,
       <<"severe headache", "Neurological", "Medium">>,
       <<"altered consciousness", "Neurological", "High">>,
       <<"coma", "Neurological", "High">>,
       <<"not able to drink", "Pediatric", "High">>,
       <<"unable to drink", "Pediatric", "High">>,
       <<"not able to breastfeed", "Pediatric", "High">>,
       <<"unable to breastfeed", "Pediatric", "High">>,
       <<"severe malnutrition", "Pediatric", "High">>,
       <<"severe pneumonia", "Respiratory", "High">>,
       <<"chest indrawing", "Respiratory", "High">>,
       <<"difficulty breathing", "Respiratory", "High">>,
       <<"respiratory distress", "Respiratory", "High">>,
       <<"stridor", "Respiratory", "High">>,
       <<"vaginal bleeding", "Maternal", "High">>,
       <<"fits in pregnancy", "Maternal", "High">>,
       <<"severe headache in pregnancy", "Maternal", "High">>,
       <<"blurred vision in pregnancy", "Maternal", "High">>,
       <<"eclampsia", "Maternal", "High">>, <<"pre-eclampsia", "Maternal", "High">>,
       <<"postpartum hemorrhage", "Maternal", "High">>,
       <<"severe dehydration", "Dehydration", "High">>,
       <<"signs of dehydration", "Dehydration", "Medium">>,
       <<"severe anaemia", "Hematologic", "High">>,
       <<"severe anemia", "Hematologic", "High">>,
       <<"persistent vomiting", "Gastrointestinal", "High">>,
       <<"bloody diarrhoea", "Gastrointestinal", "High">>,
       <<"bloody diarrhea", "Gastrointestinal", "High">>,
       <<"not able to eat", "Pediatric", "High">>,
       <<"high fever", "General", "Medium">>, <<"do not treat", "Scope", "High">>,
       <<"beyond scope", "Scope", "Medium">>,
       <<"requires specialist", "Scope", "Medium">> >>

\* term_id INTEGER PRIMARY KEY AUTOINCREMENT: one more than the largest id
\* ever handed out, which DELETE does not reset.
NextTermId(db) == db.sqlite_sequence + 1

\* executemany("INSERT INTO high_risk_terms (term, category, severity) ...")
RECURSIVE TermsLoop(_, _, _)
TermsLoop(db, terms, i) ==
    IF i > Len(terms) THEN Outcome(db, TRUE, NULL)
    ELSE IF \E j \in DOMAIN db.high_risk_terms : db.high_risk_terms[j].term = terms[i][1]
    THEN Outcome(db, FALSE, IntegrityError)
    ELSE TermsLoop([db EXCEPT !.high_risk_terms =
                        Append(@, HighRiskTermRow(NextTermId(db), terms[i][1],
                                                  terms[i][2], terms[i][3])),
                             !.sqlite_sequence = NextTermId(db)],
                   terms, i + 1)

\* GuidelineDatabase.populate_high_risk_terms()
populate_high_risk_terms(db) ==
    TermsLoop([db EXCEPT !.high_risk_terms = <<>>], HIGH_RISK_TERMS, 1)

\* GuidelineDatabase.get_high_risk_terms()
get_high_risk_terms(db) ==
    [i \in DOMAIN db.high_risk_terms |->
         <<db.high_risk_terms[i].term, db.high_risk_terms[i].category,
           db.high_risk_terms[i].severity>>]

\* An operation of the store as a step of the session; op keeps the ids the
\* call named. The connection is
\* left as the operation leaves it, the file changes when the operation
\* reached its commit, and then it holds everything the connection had
\* written, whichever operation wrote it.
StoreStep(name, args, out, value) ==
    /\ op' = Call(name, args)
    /\ db_conn' = out.conn
    /\ db_file' = IF out.committed THEN out.conn ELSE db_file
    /\ raised' = out.raised
    /\ results' = IF out.raised = NULL THEN value ELSE None
    /\ UNCHANGED <<serving, frame, ingested>>

InsertDocument(metadata, docling_json) ==
    /\ Len(db_conn.documents) < MaxDocs
    /\ StoreStep("insert_document", [metadata |-> metadata],
                 insert_document(db_conn, metadata, docling_json),
                 Some(FreshDocId(db_conn)))

InsertChunk(doc_id, chunk, fault) ==
    StoreStep("insert_chunk", [doc_id |-> doc_id, chunk_id |-> chunk.chunk_id],
              insert_chunk(db_conn, doc_id, chunk, fault), None)

InsertEmbedding(chunk_id, embedding) ==
    StoreStep("insert_embedding", [chunk_id |-> chunk_id],
              insert_embedding(db_conn, chunk_id, embedding), None)

InsertEmbeddingsBatch(batch) ==
    StoreStep("insert_embeddings_batch",
              [chunk_ids |-> [i \in DOMAIN batch |-> batch[i][1]]],
              insert_embeddings_batch(db_conn, batch), None)

PopulateFts5 ==
    StoreStep("populate_fts5", <<>>, populate_fts5(db_conn), None)

PopulateHighRiskTerms ==
    /\ db_conn.sqlite_sequence < MaxLoads * Len(HIGH_RISK_TERMS)
    /\ StoreStep("populate_high_risk_terms", <<>>, populate_high_risk_terms(db_conn), None)

UpdateApprovalStatus(doc_id, status) ==
    StoreStep("update_approval_status", [doc_id |-> doc_id, status |-> status],
              update_approval_status(db_conn, doc_id, status), None)

\* ------------------------------------------------------ ingestion command
\* pipeline.py: main and run_pipeline, one process per command. A PDF is what
\* the command can find out about it: whether the file exists, whether
\* Docling's converter can read it, and the chunks the converter and the
\* chunker then make of it.
Pdf(exists, readable, document) == [exists |-> exists, readable |-> readable, document |-> document]

\* The process exit status of the command and what it wrote to stderr
\* (None: nothing).
ExitStatus(exit_code, stderr) == [exit_code |-> exit_code, stderr |-> stderr]

\* sys.exit(1) after "Error: PDF file not found"
EXIT_NOT_FOUND == 1
\* sys.exit(1) in the except Exception handler around run_pipeline
EXIT_PIPELINE_FAILED == 1
\* main returns
EXIT_SUCCESS == 0

NotFound == ExitStatus(EXIT_NOT_FOUND, <<"Error: PDF file not found">>)
PipelineFailed(e) == ExitStatus(EXIT_PIPELINE_FAILED, <<"Error: Pipeline failed", e>>)
Succeeded == ExitStatus(EXIT_SUCCESS, None)

\* The locals of run_pipeline: the id of the document record, the converted
\* document, the chunker's chunks, and the number of chunks inserted so far.
RunFrame(pc, doc_id, document, chunk_list, inserted) ==
    [pc |-> pc, doc_id |-> doc_id, document |-> document, chunks |-> chunk_list,
     inserted |-> inserted]

\* chunker.chunk(result.document): one ChunkResult per Docling chunk, each
\* with a new uuid4.
chunker_chunk(db, document) ==
    [i \in DOMAIN document |-> ChunkResult(FreshChunkId(db) + i - 1, document[i])]

\* Mutant: the raw content is embedded.
EmbeddedText_Content(chunk) == chunk.content

\* texts = [chunk.contextualized_text for chunk in chunks]
EmbeddedText(chunk) == chunk.contextualized_text

\* GuidelineEmbedder.embed_chunks(chunks): the texts are embedded as one
\* batch and zipped with the chunks in order.
embed_chunks(chunk_list) ==
    [i \in DOMAIN chunk_list |->
         <<chunk_list[i].chunk_id, Embed(EmbeddedText(chunk_list[i]))>>]

\* main up to the document record: the input check, then run_pipeline's
\* steps 1 to 3 (a connection of its own, create_schema, convert,
\* insert_document).
Main(pdf) ==
    /\ frame.pc = "idle"
    /\ Len(db_file.documents) < MaxDocs
    /\ op' = Call("main", [pdf_exists |-> pdf.exists])
    /\ raised' = NULL
    /\ IF ~pdf.exists
       THEN /\ results' = NotFound
            /\ UNCHANGED <<frame, db_conn, db_file>>
       ELSE IF ~pdf.readable
       THEN /\ results' = PipelineFailed("ConversionError")
            /\ db_conn' = db_file
            /\ UNCHANGED <<frame, db_file>>
       ELSE /\ results' = None
            /\ db_conn' = insert_document(db_file, "guideline.pdf", "docling").conn
            /\ db_file' = db_conn'
            /\ frame' = RunFrame("converted", FreshDocId(db_file), pdf.document, <<>>, 0)
    /\ UNCHANGED <<serving, ingested>>

\* Step 4, first half: the chunker splits the document.
RunChunk ==
    /\ frame.pc = "converted"
    /\ frame' = [frame EXCEPT !.pc = "inserting",
                              !.chunks = chunker_chunk(db_conn, frame.document)]
    /\ UNCHANGED <<serving, ingested, db_conn, db_file, op, raised, results>>

\* Step 4, second half: one turn of the loop over the chunks.
RunInsertChunk ==
    /\ frame.pc = "inserting"
    /\ frame.inserted < Len(frame.chunks)
    /\ db_conn' = insert_chunk(db_conn, frame.doc_id, frame.chunks[frame.inserted + 1],
                               NULL).conn
    /\ db_file' = db_conn'
    /\ frame' = [frame EXCEPT !.inserted = @ + 1]
    /\ UNCHANGED <<serving, ingested, op, raised, results>>

\* Step 5: the chunks are embedded and the embeddings stored as one batch.
RunEmbed ==
    /\ frame.pc = "inserting"
    /\ frame.inserted = Len(frame.chunks)
    /\ db_conn' = insert_embeddings_batch(db_conn, embed_chunks(frame.chunks)).conn
    /\ db_file' = db_conn'
    /\ frame' = [frame EXCEPT !.pc = "embedded"]
    /\ UNCHANGED <<serving, ingested, op, raised, results>>

\* Step 6 and the return: the FTS table is rebuilt, the connection closed,
\* run_pipeline returns its statistics and main returns.
RunPopulate ==
    /\ frame.pc = "embedded"
    /\ db_conn' = populate_fts5(db_conn).conn
    /\ db_file' = db_conn'
    /\ ingested' = ingested \cup {frame.doc_id}
    /\ results' = Succeeded
    /\ frame' = NoFrame
    /\ UNCHANGED <<serving, op, raised>>

\* A step of run_pipeline raises (the tokenizer or the embedding model
\* cannot be loaded, the store reports an error): the handler in main
\* prints the error and exits; the process ends, and with it the connection
\* and whatever it had not committed.
RunFail(e) ==
    /\ frame.pc \in {"converted", "inserting", "embedded"}
    /\ results' = PipelineFailed(e)
    /\ db_conn' = db_file
    /\ frame' = NoFrame
    /\ UNCHANGED <<serving, ingested, db_file, op, raised>>

\* ------------------------------------------------------------------- inits
\* The queries a session is opened for: empty, whitespace only, one term,
\* a padded term, two terms, a term with one double quote, a quoted term,
\* and a term no chunk holds.
Queries ==
    { <<>>, <<"sp">>, <<"w1">>, <<"sp", "w2", "sp">>, <<"w1", "sp", "w2">>,
      <<"w1", "dq">>, <<"dq", "w1", "dq">>, <<"w3">> }

\* A session without rows in table high_risk_terms (or without the table).
NoLexicon == high_risk_terms = <<>>

NoOp ==
    /\ op = Op("open", 0)
    /\ index_log = <<>>
    /\ vector_results = <<>>
    /\ keyword_results = <<>>
    /\ scores = <<>>
    /\ results = <<>>
    /\ raised = NULL
    /\ ollama = <<>>
    /\ frame = NoFrame

\* No backend is listening.
BackendDown == backend = Failure("requests.ConnectionError")

\* No ingestion or review session has touched a database file.
NoIngest == db_file = EmptyDatabase /\ db_conn = EmptyDatabase /\ ingested = {}

\* A process that serves no query: no chunks loaded, no query, no lexicon.
NoServing ==
    /\ chunks = <<>> /\ embeddings = <<>> /\ chunks_fts = <<>> /\ bm25 = <<>>
    /\ HAS_EMBEDDER = FALSE /\ HAS_SQLITE_VEC = FALSE
    /\ query = <<>>
    /\ NoLexicon
    /\ BackendDown

\* The store after ingestion (run_pipeline): every chunk has its embedding
\* and its FTS row. Chunk ids are opaque (uuid4), so they are numbered by
\* increasing distance of their embedding from the embedding of the query;
\* which kind of chunk sits at which distance is free, and so is the
\* ranking the lexical index gives the same chunks.
StoreInit(ids) ==
    /\ chunks \in [ids -> ChunkKinds]
    /\ embeddings = [c \in ids |-> c]
    /\ chunks_fts = [c \in ids |-> chunks[c].content]

BM25Rankings(ids) == { [c \in ids |-> 0 - p[c]] : p \in Perms(ids) }

\* A serving session: any store, any ranking by the lexical index, the
\* vector lane present or absent, and the three retrieval operations.
Init ==
    /\ StoreInit(ChunkIds)
    /\ bm25 \in BM25Rankings(ChunkIds)
    /\ HAS_EMBEDDER \in BOOLEAN
    /\ HAS_SQLITE_VEC = HAS_EMBEDDER
    /\ query \in { <<>>, <<"w1">>, <<"w1", "sp", "w2">> }
    /\ NoLexicon
    /\ NoOp
    /\ NoIngest
    /\ BackendDown

Next ==
    \/ \E k \in 0..MaxK : SearchVector(k)
    \/ \E k \in 0..MaxK : SearchKeyword(k)
    \/ \E top_k \in 0..MaxK : SearchHybrid(top_k)

Spec == Init /\ [][Next]_vars

\* The hybrid search alone, over the same sessions.
NextHybrid == \E top_k \in 0..MaxK : SearchHybrid(top_k)

SpecHybrid == Init /\ [][NextHybrid]_vars

\* The vector lane alone, over a store with more embeddings than a call
\* with k = 1 fetches.
VectorChunkIds == 1..(MaxChunks + 1)

InitVector ==
    /\ StoreInit(VectorChunkIds)
    /\ bm25 = [c \in VectorChunkIds |-> 0 - c]
    /\ HAS_EMBEDDER \in BOOLEAN
    /\ HAS_SQLITE_VEC \in BOOLEAN
    /\ query = <<"w1">>
    /\ NoLexicon
    /\ NoOp
    /\ NoIngest
    /\ BackendDown

NextVector == \E k \in 0..MaxK : SearchVector(k)

SpecVector == InitVector /\ [][NextVector]_vars

\* The keyword lane alone, over every query of the catalogue.
InitKeyword ==
    /\ StoreInit(ChunkIds)
    /\ bm25 \in BM25Rankings(ChunkIds)
    /\ HAS_EMBEDDER = FALSE
    /\ HAS_SQLITE_VEC = FALSE
    /\ query \in Queries
    /\ NoLexicon
    /\ NoOp
    /\ NoIngest
    /\ BackendDown

NextKeyword == \E k \in 0..MaxK : SearchKeyword(k)

SpecKeyword == InitKeyword /\ [][NextKeyword]_vars

\* Every entry point of the lexical index, over every query of the
\* catalogue: both search_keyword methods and the hybrid search.
NextLexical ==
    \/ \E k \in 0..MaxK : SearchKeyword(k)
    \/ \E k \in 0..MaxK, content_only \in BOOLEAN : DbSearchKeyword(k, content_only)
    \/ \E top_k \in 0..MaxK : SearchHybrid(top_k)

SpecLexical == InitKeyword /\ [][NextLexical]_vars

\* The alerter alone: any lexicon of distinct terms (the column is UNIQUE,
\* case-sensitively) with the two severities populate_high_risk_terms
\* writes, applied to any list of results over a catalogue of contents.
\* Here a symbol is one character.
AlertTerms == { <<"a">>, <<"B">>, <<"a", "b">>, <<"a", "sp", "b">> }
AlertContents ==
    { Content(0, 1, {"a"}, <<"a">>),
      Content(0, 1, {"b"}, <<"b">>),
      Content(0, 2, {"ab"}, <<"A", "b">>),
      Content(0, 1, {"x"}, <<"x">>) }
Severities == { SEVERITY_HIGH, SEVERITY_MEDIUM }

SeqsUpTo(S, n) == UNION { [1..m -> S] : m \in 0..n }
Lexicons ==
    { lex \in SeqsUpTo(AlertTerms \X {"Danger"} \X Severities, MaxLexicon) :
        \A i, j \in DOMAIN lex : lex[i][1] = lex[j][1] => i = j }
AlertInputs ==
    { [i \in DOMAIN cs |->
          SearchResult(i, cs[i], <<>>, 1, Frac(1, 1), "keyword")] :
      cs \in SeqsUpTo(AlertContents, MaxResults) }

InitAlert ==
    /\ chunks = <<>>
    /\ embeddings = <<>>
    /\ chunks_fts = <<>>
    /\ bm25 = <<>>
    /\ HAS_EMBEDDER = FALSE
    /\ HAS_SQLITE_VEC = FALSE
    /\ query = <<>>
    /\ high_risk_terms \in Lexicons
    /\ NoOp
    /\ NoIngest
    /\ BackendDown

NextAlert == \E rs \in AlertInputs : DetectHighRisk(rs)

SpecAlert == InitAlert /\ [][NextAlert]_vars

\* The chunk formatter alone, over lists of short chunks: with headings and
\* a page, without either, and with two headings and page 0.
PromptChunks ==
    { ChunkContext(Content(0, 1, {"w1"}, <<"w1">>), <<"H1">>, 1, Frac(1, 1)),
      ChunkContext(Content(0, 3, {"w2"}, <<"w2">>), <<>>, NO_PAGE, Frac(1, 2)),
      ChunkContext(Content(0, 2, {"w1"}, <<"w1">>), <<"H1", "H2">>, 0, Frac(1, 3)) }
PromptChunkLists == SeqsUpTo(PromptChunks, MaxPromptChunks)

\* No store is open while a prompt is built.
InitPrompt ==
    /\ chunks = <<>>
    /\ embeddings = <<>>
    /\ chunks_fts = <<>>
    /\ bm25 = <<>>
    /\ HAS_EMBEDDER = FALSE
    /\ HAS_SQLITE_VEC = FALSE
    /\ query = <<>>
    /\ NoLexicon
    /\ NoOp
    /\ NoIngest
    /\ BackendDown

NextFormat ==
    \E chunk_list \in PromptChunkLists, max_chars \in 0..MaxChars :
        FormatChunks(chunk_list, max_chars)

SpecFormat == InitPrompt /\ [][NextFormat]_vars

\* The synthesis prompt alone: any alert list over two High and two Medium
\* alerts, in any order and with repetitions, or None.
PromptAlerts ==
    { HighRiskAlertContext(<<"convulsions">>, "Neurological", SEVERITY_HIGH),
      HighRiskAlertContext(<<"refer", "sp", "immediately">>, "Referral", SEVERITY_HIGH),
      HighRiskAlertContext(<<"headache">>, "Neurological", SEVERITY_MEDIUM),
      HighRiskAlertContext(<<"fever">>, "Fever", SEVERITY_MEDIUM) }
PromptAlertLists ==
    { Some(list) : list \in SeqsUpTo(PromptAlerts, MaxAlerts) } \cup {None}

NextPrompt ==
    \E q \in { <<"w1">>, <<"w1", "sp", "w2">> },
       chunk_list \in SeqsUpTo(PromptChunks, 1),
       alerts \in PromptAlertLists :
        SynthesisPrompt(q, chunk_list, alerts)

SpecPrompt == InitPrompt /\ [][NextPrompt]_vars

\* The guardrail alone: the backend answers the validation request with
\* any text of up to MaxResponse symbols (a symbol is a word of the verdict
\* line or a space), or fails.
ResponseSymbols ==
    { "OVERALL:", "Overall:", "sp", "PASS", "Pass", "FAIL", "_WITH_WARNINGS" }
Responses == SeqsUpTo(ResponseSymbols, MaxResponse)
Summaries == { <<"summary">>, <<>> }

\* Nothing has been called yet and the backend has its answer ready.
InitGuardrail ==
    /\ chunks = <<>>
    /\ embeddings = <<>>
    /\ chunks_fts = <<>>
    /\ bm25 = <<>>
    /\ HAS_EMBEDDER = FALSE
    /\ HAS_SQLITE_VEC = FALSE
    /\ query = <<"w1">>
    /\ NoLexicon
    /\ NoOp
    /\ NoIngest
    /\ backend \in { Reply(r) : r \in Responses }
                       \cup { Failure(e) : e \in GenerationErrors }

NextGuardrail ==
    \E summary \in Summaries : ValidateGuardrail(query, summary, <<>>, backend)

SpecGuardrail == InitGuardrail /\ [][NextGuardrail]_vars

\* The pipeline: any store, the vector lane present or absent, a lexicon
\* with one High and one Medium term, and a backend that answers either
\* request with any text of its catalogue or lets the call fail.
PipelineLexicon ==
    << <<<<"w1">>, "Fever", SEVERITY_HIGH>>, <<<<"w2">>, "Neurological", SEVERITY_MEDIUM>> >>
GuardrailReplies == { <<"OVERALL:", "sp", "PASS">>, <<"OVERALL:", "sp", "FAIL">> }

InitPipeline ==
    /\ StoreInit(ChunkIds)
    /\ bm25 = [c \in ChunkIds |-> 0 - c]
    /\ HAS_EMBEDDER \in BOOLEAN
    /\ HAS_SQLITE_VEC = HAS_EMBEDDER
    /\ query = <<"w1">>
    /\ high_risk_terms = PipelineLexicon
    /\ NoOp
    /\ NoIngest
    /\ BackendDown

NextPipeline ==
    \/ \E top_k \in 0..MaxK, run_guardrail \in BOOLEAN :
           QueryRetrieve(top_k, run_guardrail)
    \/ QuerySynthesize
    \/ \E outcome \in { Reply(r) : r \in Summaries }
                           \cup { Failure(e) : e \in GenerationErrors } :
           SynthesisOutcome(outcome)
    \/ QueryValidate
    \/ \E outcome \in { Reply(r) : r \in GuardrailReplies }
                           \cup { Failure(e) : e \in GenerationErrors } :
           GuardrailOutcome(outcome)
    \/ QueryReturn

SpecPipeline == InitPipeline /\ [][NextPipeline]_vars

\* The search-only entry point of the pipeline, over the same sessions.
NextSearchOnly == \E top_k \in 0..MaxK : QuerySearchOnly(top_k)

SpecSearchOnly == InitPipeline /\ [][NextSearchOnly]_vars

\* A session of a client of the store (ingestion code, the review UI): a new
\* database file and any sequence of the write operations. The client picks
\* chunk ids from StoreChunkIds, names a document of the store or none, and
\* hands over a chunk as the chunker builds it or one whose headings are
\* front matter and whose category was left at the dataclass default.
InitStore == NoServing /\ NoOp /\ NoIngest

StoreChunkIds == 1..MaxStoreChunks
StoreChunks ==
    { ChunkResult(c, DocChunk("Give ORS", <<"Malaria", "Treatment">>)) :
          c \in StoreChunkIds }
    \cup { ChunkData(c, "Malaria 12", "[Table of Contents] Malaria 12",
                     <<"Table of Contents">>, CHUNK_CATEGORY_CONTENT) :
               c \in StoreChunkIds }
StatementFaults == {NULL, "TypeError"}
StoreBatches ==
    { [i \in DOMAIN ids |-> <<ids[i], Embed("[Malaria > Treatment] Give ORS")>>] :
          ids \in SeqsUpTo(StoreChunkIds, MaxStoreChunks) }

NextStore ==
    \/ InsertDocument("guideline.pdf", NULL)
    \/ \E doc_id \in DocIdsOf(db_conn.documents) \cup {NO_SUCH_DOC},
          chunk \in StoreChunks, fault \in StatementFaults :
           InsertChunk(doc_id, chunk, fault)
    \/ \E c \in StoreChunkIds : InsertEmbedding(c, Embed("[Malaria > Treatment] Give ORS"))
    \/ \E batch \in StoreBatches : InsertEmbeddingsBatch(batch)
    \/ PopulateFts5

SpecStore == InitStore /\ [][NextStore]_vars

\* A review session: documents are inserted, chunks with new ids are
\* inserted for them, and the reviewer sets the approval status of a
\* document of the store or of none to one of the three values.
NextApproval ==
    \/ InsertDocument("guideline.pdf", NULL)
    \/ \E doc_id \in DocIdsOf(db_conn.documents) :
           /\ Len(db_conn.chunks) < MaxStoreChunks
           /\ InsertChunk(doc_id,
                          ChunkResult(FreshChunkId(db_conn),
                                      DocChunk("Give ORS", <<"Malaria">>)),
                          NULL)
    \/ \E doc_id \in DocIdsOf(db_conn.documents) \cup {NO_SUCH_DOC},
          status \in APPROVAL_STATUSES :
           UpdateApprovalStatus(doc_id, status)

SpecApproval == InitStore /\ [][NextApproval]_vars

\* A set-up session over one document: chunks are inserted for it (a call
\* may fail between its two statements), and the FTS table and the lexicon
\* are populated any number of times.
NextPopulate ==
    \/ db_conn.documents = <<>> /\ InsertDocument("guideline.pdf", NULL)
    \/ \E doc_id \in DocIdsOf(db_conn.documents), c \in StoreChunkIds,
          fault \in StatementFaults :
           InsertChunk(doc_id, ChunkResult(c, DocChunk("Give ORS", <<"Malaria">>)), fault)
    \/ PopulateFts5
    \/ PopulateHighRiskTerms

SpecPopulate == InitStore /\ [][NextPopulate]_vars

\* The ingestion command run again and again on one database file: on a
\* file that does not exist, on a file Docling cannot read, and on PDFs of
\* up to MaxDocChunks chunks, clinical or front matter; any step after the
\* conversion may fail.
DocChunkKinds ==
    { DocChunk("Give ORS", <<"Malaria", "Treatment">>),
      DocChunk("Malaria 12", <<"Table of Contents">>) }
Pdfs ==
    { Pdf(FALSE, FALSE, <<>>), Pdf(TRUE, FALSE, <<>>) }
    \cup { Pdf(TRUE, TRUE, document) : document \in SeqsUpTo(DocChunkKinds, MaxDocChunks) }
PipelineErrors == {"OSError"}

NextIngest ==
    \/ \E pdf \in Pdfs : Main(pdf)
    \/ RunChunk
    \/ RunInsertChunk
    \/ RunEmbed
    \/ RunPopulate
    \/ \E e \in PipelineErrors : RunFail(e)

SpecIngest == InitStore /\ [][NextIngest]_vars

\* The hybrid search over stores large enough to fill both lanes: every
\* chunk is clinical content long enough for the vector lane; the chunks
\* the query matches lexically are a run of ids from the nearest chunk on or
\* up to the farthest, and the lexical index ranks them by increasing or by
\* decreasing id.
FusionChunkIds == 1..MaxFusionChunks
LexicalHit == ChunkRow(CHUNK_CATEGORY_CONTENT, Content(0, 50, {"w1"}, <<"w1">>), <<"Malaria">>, 5)
LexicalMiss == ChunkRow(CHUNK_CATEGORY_CONTENT, Content(1, 50, {"w2"}, <<"sp", "w2">>), <<"Malaria", "Treatment">>, 6)
LexicalHitSets ==
    { 1..hi : hi \in FusionChunkIds } \cup { lo..MaxFusionChunks : lo \in FusionChunkIds }
FusionRankings ==
    { [c \in FusionChunkIds |-> c - MaxFusionChunks - 1], [c \in FusionChunkIds |-> 0 - c] }
TopKs == {0, 1, LANE_K, 2 * LANE_K - 1, 2 * LANE_K, MaxTopK}

InitFusion ==
    /\ \E hit \in LexicalHitSets :
           chunks = [c \in FusionChunkIds |-> IF c \in hit THEN LexicalHit ELSE LexicalMiss]
    /\ embeddings = [c \in FusionChunkIds |-> c]
    /\ chunks_fts = [c \in FusionChunkIds |-> chunks[c].content]
    /\ bm25 \in FusionRankings
    /\ HAS_EMBEDDER = TRUE
    /\ HAS_SQLITE_VEC = TRUE
    /\ query = <<"w1">>
    /\ NoLexicon
    /\ NoOp
    /\ NoIngest
    /\ BackendDown

NextFusion == \E top_k \in TopKs : SearchHybrid(top_k)

SpecFusion == InitFusion /\ [][NextFusion]_vars

\* ------------------------------------------------------------------ claims
IsHybrid == op.name = "search_hybrid"
Ids(list) == [i \in DOMAIN list |-> list[i].chunk_id]
IdSet(list) == { list[i].chunk_id : i \in DOMAIN list }
InBothLanes(c) == c \in IdSet(vector_results) /\ c \in IdSet(keyword_results)
Min(a, b) == IF a < b THEN a ELSE b

\* The occurrences of the two lanes in the order the fusion visits them.
Observed == vector_results \o keyword_results
FirstObserved(c) ==
    CHOOSE i \in DOMAIN Observed :
        /\ Observed[i].chunk_id = c
        /\ \A j \in 1..(i - 1) : Observed[j].chunk_id # c

\* C1: search_hybrid returns at most top_k results and no chunk_id appears
\* more than once in the returned list.
C1_AtMostTopKDistinct ==
    IsHybrid =>
        /\ Len(results) <= op.k
        /\ \A i, j \in DOMAIN results :
               results[i].chunk_id = results[j].chunk_id => i = j

\* A chunk found by both lanes is returned, and the list was cut at top_k.
C1_Witness ==
    /\ IsHybrid
    /\ op.k >= 1
    /\ Len(results) = op.k
    /\ Len(scores) > op.k
    /\ \E i \in DOMAIN results : InBothLanes(results[i].chunk_id)

\* 1 / (60 + rank + 1) for the zero-based rank of chunk c in the lane, and
\* nothing when the lane does not hold c. List index i is rank i - 1.
Contribution(lane, c) ==
    IF \E i \in DOMAIN lane : lane[i].chunk_id = c
    THEN Frac(1, 60 + (CHOOSE i \in DOMAIN lane : lane[i].chunk_id = c))
    ELSE Frac(0, 1)
FusedScore(c) == FAdd(Contribution(vector_results, c), Contribution(keyword_results, c))

\* C2: the fused score of every distinct chunk_id is the sum over its
\* appearances in the two lanes of 1 / (60 + rank + 1); the scored chunks are
\* exactly the chunks of the two lanes, and a returned result carries that
\* score.
C2_FusedScoreIsSum ==
    IsHybrid =>
        /\ IdSet(scores) = IdSet(vector_results) \cup IdSet(keyword_results)
        /\ \A i \in DOMAIN scores : FEq(scores[i].rrf_score, FusedScore(scores[i].chunk_id))
        /\ \A i \in DOMAIN results : FEq(results[i].score, FusedScore(results[i].chunk_id))

\* The fusion saw a chunk of both lanes, one of the vector lane only and one
\* of the keyword lane only.
C2_Witness ==
    /\ IsHybrid
    /\ Len(results) = Len(scores)
    /\ \E c \in IdSet(results) : InBothLanes(c)
    /\ \E c \in IdSet(results) : c \notin IdSet(keyword_results)
    /\ \E c \in IdSet(results) : c \notin IdSet(vector_results)

\* C3: results come in descending fused-score order; results of equal score
\* keep the order of first observation (vector lane before keyword lane);
\* two returned chunks found only by the vector lane keep their vector order.
C3_DescendingStable ==
    IsHybrid =>
        /\ \A i, j \in DOMAIN results : i < j =>
               /\ ~FLess(results[i].score, results[j].score)
               /\ FEq(results[i].score, results[j].score) =>
                      FirstObserved(results[i].chunk_id) < FirstObserved(results[j].chunk_id)
        /\ \A i, j \in DOMAIN vector_results :
               /\ i < j
               /\ vector_results[i].chunk_id \notin IdSet(keyword_results)
               /\ vector_results[j].chunk_id \notin IdSet(keyword_results)
               /\ vector_results[j].chunk_id \in IdSet(results)
               => \E a, b \in DOMAIN results :
                      /\ a < b
                      /\ results[a].chunk_id = vector_results[i].chunk_id
                      /\ results[b].chunk_id = vector_results[j].chunk_id

\* Two returned results tie, and two vector-only chunks are returned.
C3_Witness ==
    /\ IsHybrid
    /\ \E i, j \in DOMAIN results :
           i < j /\ FEq(results[i].score, results[j].score)
    /\ \E i, j \in DOMAIN results :
           /\ i < j
           /\ {results[i].chunk_id, results[j].chunk_id} \cap IdSet(keyword_results) = {}

\* C4: every returned result has source = hybrid and the content, headings
\* and page_number of the first-observed occurrence of its chunk_id; the
\* result object the fusion keeps for a chunk is that first occurrence.
C4_FirstObservedMetadata ==
    IsHybrid =>
        /\ \A i \in DOMAIN results :
               LET first == Observed[FirstObserved(results[i].chunk_id)]
               IN /\ results[i].source = "hybrid"
                  /\ results[i].content = first.content
                  /\ results[i].headings = first.headings
                  /\ results[i].page_number = first.page_number
        /\ \A i \in DOMAIN scores :
               scores[i].result = Observed[FirstObserved(scores[i].chunk_id)]

\* A returned chunk was observed twice, in the vector lane first.
C4_Witness ==
    /\ IsHybrid
    /\ \E i \in DOMAIN results :
           /\ InBothLanes(results[i].chunk_id)
           /\ results[i].headings # <<>>

\* C5: when one lane is empty, the returned chunk_ids are the other lane's
\* chunk_ids in the same order, cut to the first top_k.
C5_PassThrough ==
    IsHybrid =>
        /\ vector_results = <<>> =>
               Ids(results) = SubSeq(Ids(keyword_results), 1, Min(op.k, Len(keyword_results)))
        /\ keyword_results = <<>> =>
               Ids(results) = SubSeq(Ids(vector_results), 1, Min(op.k, Len(vector_results)))

\* The vector lane is unavailable and the keyword lane's list is cut.
C5_Witness ==
    /\ IsHybrid
    /\ ~VectorAvailable
    /\ op.k = 2
    /\ Len(keyword_results) = 3
    /\ Len(results) = 2

\* C6: search_hybrid called with an empty query returns an empty list.
C6_EmptyQueryEmptyResult ==
    (IsHybrid /\ query = <<>>) => results = <<>>

\* C7, as claimed: with top_k = 0 search_hybrid returns an empty list and
\* issues neither sub-search.
C7_TopKZeroNoSubSearch ==
    (IsHybrid /\ op.k = 0) => (results = <<>> /\ index_log = <<>>)

\* C7, amended: with top_k = 0 search_hybrid returns an empty list, and it
\* issues the sub-searches as for any other top_k: the vector index is
\* queried whenever the vector lane is available, the lexical index
\* whenever the query holds a term.
C7_TopKZeroEmptyAfterSubSearches ==
    (IsHybrid /\ op.k = 0) =>
        /\ results = <<>>
        /\ VectorAvailable <=> \E i \in DOMAIN index_log : index_log[i].index = "embeddings"
        /\ (\E i \in DOMAIN query : query[i] # "sp")
               <=> \E i \in DOMAIN index_log : index_log[i].index = "chunks_fts"

\* top_k = 0 with both indices queried and chunks found by both lanes.
C7_Witness ==
    /\ IsHybrid
    /\ op.k = 0
    /\ Len(index_log) = 2
    /\ \E c \in IdSet(vector_results) : InBothLanes(c)

IsVector == op.name = "search_vector"
\* The n embeddings nearest to the query.
Nearest(n) ==
    { c \in DOMAIN embeddings :
        Cardinality({ d \in DOMAIN embeddings : embeddings[d] < embeddings[c] }) < n }
\* A candidate survives when its chunk is no metadata chunk and its content
\* has at least 50 characters once trimmed.
Survives(c) ==
    /\ c \in DOMAIN chunks
    /\ chunks[c].category # "metadata"
    /\ chunks[c].content.body >= 50
Survivors(k) == { c \in Nearest(3 * k) : Survives(c) }

\* C8: search_vector(q, k) returns no metadata chunk and no chunk whose
\* trimmed content is shorter than 50 characters, in ascending distance;
\* when the lane runs, the list holds the first k survivors among the 3k
\* nearest candidates, and fewer than k only when fewer than k survive.
\* With a dependency missing no candidate is fetched and the list is empty.
C8_FirstKSurvivors ==
    IsVector =>
        /\ \A i \in DOMAIN results :
               /\ Survives(results[i].chunk_id)
               /\ results[i].source = "vector"
        /\ \A i, j \in DOMAIN results :
               i < j => embeddings[results[i].chunk_id] < embeddings[results[j].chunk_id]
        /\ VectorAvailable =>
               /\ IdSet(results) \subseteq Survivors(op.k)
               /\ Len(results) = Min(op.k, Cardinality(Survivors(op.k)))
               /\ \A c \in Survivors(op.k) \ IdSet(results) :
                      \A r \in IdSet(results) : embeddings[r] < embeddings[c]
        /\ ~VectorAvailable => results = <<>>

\* k = 1: the three nearest candidates are all dropped, and the chunk that
\* would survive lies beyond them, so the list is empty.
C8_Witness ==
    /\ IsVector
    /\ VectorAvailable
    /\ op.k = 1
    /\ results = <<>>
    /\ \E c \in DOMAIN chunks : Survives(c)
    /\ \E c \in Nearest(3) : chunks[c].category = "metadata"
    /\ \E c \in Nearest(3) : chunks[c].category = "content"

IsKeyword == op.name = "search_keyword"

\* C9: search_keyword(query, k) returns at most k results, each a chunk of
\* category content with source = keyword and score = |bm25|, best (most
\* negative) BM25 first; no metadata chunk is returned.
C9_KeywordContentOnly ==
    IsKeyword =>
        /\ Len(results) <= op.k
        /\ \A i \in DOMAIN results :
               /\ chunks[results[i].chunk_id].category = "content"
               /\ results[i].source = "keyword"
               /\ FEq(results[i].score, Frac(Abs(bm25[results[i].chunk_id]), 1))
        /\ \A i, j \in DOMAIN results :
               i < j => bm25[results[i].chunk_id] < bm25[results[j].chunk_id]

\* A metadata chunk holds a term of the query and ranks best, and the list
\* of content chunks is cut at k.
C9_Witness ==
    /\ IsKeyword
    /\ op.k = 2
    /\ Len(results) = 2
    /\ \E c \in DOMAIN chunks :
           /\ chunks[c].category = "metadata"
           /\ \E i \in DOMAIN query : query[i] \in chunks[c].content.tokens
           /\ \A d \in DOMAIN chunks : bm25[c] <= bm25[d]

\* C10: search_keyword called with an empty or whitespace-only query
\* returns an empty list and issues no query to the lexical index.
C10_EmptyQueryNoIndexQuery ==
    (IsKeyword /\ \A i \in DOMAIN query : query[i] = "sp") =>
        (results = <<>> /\ index_log = <<>>)

\* A whitespace-only query over a store that holds content chunks.
C10_Witness ==
    /\ IsKeyword
    /\ query = <<"sp">>
    /\ op.k >= 1
    /\ \E c \in DOMAIN chunks : chunks[c].category = "content"

\* The lexical index rejects the expression built from the query.
IndexRejects(q) ==
    /\ PySplit(PyStrip(q)) # <<>>
    /\ Fts5Rejects(FtsQuery(PySplit(PyStrip(q))))

\* C11: when the lexical index rejects the match expression built from the
\* query, no search_keyword and no search_hybrid call lets the index error
\* through to its caller: the keyword lane is the empty list and the store
\* is left as it was.
C11_NoRawIndexError ==
    [][ IndexRejects(query) =>
            /\ raised' = NULL
            /\ op'.name \in {"search_keyword", "db_search_keyword"} => results' = <<>>
            /\ op'.name = "search_hybrid" => keyword_results' = <<>>
            /\ store' = store ]_vars

IsDetect == op.name = "detect_high_risk"
AlertedTerms == { results[i].term : i \in DOMAIN results }
LexiconTerms == { high_risk_terms[i][1] : i \in DOMAIN high_risk_terms }

\* C12: detect_high_risk returns each term at most once, however many
\* results contain it, every High-severity alert before every
\* Medium-severity alert, and alerts of equal severity in ascending term
\* order.
C12_OnceHighFirstAscending ==
    IsDetect =>
        /\ \A i, j \in DOMAIN results : results[i].term = results[j].term => i = j
        /\ \A i, j \in DOMAIN results :
               (i < j /\ results[j].severity = "High") => results[i].severity = "High"
        /\ \A i, j \in DOMAIN results :
               (i < j /\ results[i].severity = results[j].severity)
                   => StrLess(results[i].term, results[j].term)

\* Three alerts of both severities, one of them for a term that two results
\* contain, from a lexicon that holds the Medium term first.
C12_Witness ==
    /\ IsDetect
    /\ Len(results) = 3
    /\ results[1].severity = "High"
    /\ results[3].severity = "Medium"
    /\ high_risk_terms[1][3] = "Medium"
    /\ Len(op.args) = 2
    /\ \A i \in DOMAIN op.args :
           IsSubstring(StrLower(results[1].term), StrLower(op.args[i].content.text))

\* The lower-cased contents of the results from list index i on, one after
\* the other with nothing in between.
RECURSIVE Concatenated(_, _)
Concatenated(rs, i) ==
    IF i > Len(rs) THEN <<>>
    ELSE StrLower(rs[i].content.text) \o Concatenated(rs, i + 1)

\* The same with a single space between one content and the next.
RECURSIVE SpaceJoined(_, _)
SpaceJoined(rs, i) ==
    IF i > Len(rs) THEN <<>>
    ELSE (IF i > 1 THEN <<"sp">> ELSE <<>>)
             \o StrLower(rs[i].content.text) \o SpaceJoined(rs, i + 1)

\* C13, as claimed: an alert is emitted for a lexicon term if and only if
\* the lower-cased term is a substring of the concatenation of the
\* lower-cased contents of all results.
C13_AlertIffInConcatenation ==
    IsDetect =>
        \A t \in LexiconTerms :
            t \in AlertedTerms <=> IsSubstring(StrLower(t), Concatenated(op.args, 1))

\* C13, amended: an alert is emitted for a lexicon term if and only if the
\* lower-cased term is a substring of the lower-cased contents of all
\* results joined with a single space between consecutive contents; no
\* alert is emitted for anything but a lexicon term.
C13_AlertIffInSpaceJoined ==
    IsDetect =>
        /\ AlertedTerms \subseteq LexiconTerms
        /\ \A t \in LexiconTerms :
               t \in AlertedTerms <=> IsSubstring(StrLower(t), SpaceJoined(op.args, 1))

\* Two results "a" and "b": the term "a b" is found across the boundary, the
\* term "ab" is not, and the capitalised term "B" is found in lower case.
C13_Witness ==
    /\ IsDetect
    /\ Len(op.args) = 2
    /\ op.args[1].content.text = <<"a">>
    /\ op.args[2].content.text = <<"b">>
    /\ <<"a", "b">> \in LexiconTerms \ AlertedTerms
    /\ <<"a", "sp", "b">> \in AlertedTerms
    /\ <<"B">> \in AlertedTerms

IsFormat == op.name = "format_chunks_for_prompt"
\* The number of entries in a context: entries sit at the odd positions,
\* blank lines between them.
EntryCount(context) == (Len(context) + 1) \div 2
\* len(entry) summed over the first n chunks of the list.
RECURSIVE EntryChars(_, _)
EntryChars(chunk_list, n) ==
    IF n = 0 THEN 0
    ELSE EntryChars(chunk_list, n - 1) + PieceLen(PromptEntry(n, chunk_list[n]))

\* C15_a: the context holds whole entries for a prefix of the list, in
\* retrieval order and numbered 1..n, with a blank line between them.
C15_WholeEntriesOfPrefix ==
    IsFormat =>
        LET n == EntryCount(results)
        IN /\ n <= Len(op.args.chunks)
           /\ Len(results) = IF n = 0 THEN 0 ELSE 2 * n - 1
           /\ \A i \in 1..n : results[2 * i - 1] = PromptEntry(i, op.args.chunks[i])
           /\ \A i \in 1..(n - 1) : results[2 * i] = Literal("\n\n")

\* C15_b: the entries emitted fit the budget, and the formatter stopped at
\* the first entry that would exceed it.
C15_StopsBeforeExceeding ==
    IsFormat =>
        LET n == EntryCount(results)
        IN /\ EntryChars(op.args.chunks, n) <= op.args.max_chars
           /\ n < Len(op.args.chunks) =>
                  EntryChars(op.args.chunks, n + 1) > op.args.max_chars

\* C15: format_chunks_for_prompt emits whole entries only, for a prefix of
\* the list in retrieval order numbered 1..n, stops before the first entry
\* that would exceed the budget, and the returned context is never longer
\* than max_chars characters.
C15_WithinBudget ==
    /\ C15_WholeEntriesOfPrefix
    /\ C15_StopsBeforeExceeding
    /\ IsFormat => TextLen(results) <= op.args.max_chars

IsSynthesisPrompt == op.name = "synthesis_prompt"
\* The alert list the prompt was built for (None is no alert).
GivenAlerts == IF op.args.alerts = <<>> THEN <<>> ELSE op.args.alerts[1]
\* The term is listed in a line of the safety block with that label.
ListedUnder(label, term) ==
    \E i \in DOMAIN results.alert_section :
        /\ results.alert_section[i].label = label
        /\ IsSubstring(term, results.alert_section[i].text)

\* C16: synthesis_prompt contains the safety-alert block if and only if the
\* alert list is non-empty; in the block every High-severity term is listed
\* under DANGER SIGNS DETECTED and every Medium-severity term under Caution
\* terms found, so that no alert passed in is left out of the prompt.
C16_SafetyBlockListsEveryAlert ==
    IsSynthesisPrompt =>
        /\ (\E i \in DOMAIN results.alert_section :
                results.alert_section[i].label = "SAFETY ALERTS:")
               <=> GivenAlerts # <<>>
        /\ \A i \in DOMAIN GivenAlerts :
               /\ GivenAlerts[i].severity = "High"
                      => ListedUnder("DANGER SIGNS DETECTED: ", GivenAlerts[i].term)
               /\ GivenAlerts[i].severity = "Medium"
                      => ListedUnder("Caution terms found: ", GivenAlerts[i].term)
               /\ \/ ListedUnder("DANGER SIGNS DETECTED: ", GivenAlerts[i].term)
                  \/ ListedUnder("Caution terms found: ", GivenAlerts[i].term)

\* Three alerts, a Medium one first and High ones after it: the block has
\* both lines.
C16_Witness ==
    /\ IsSynthesisPrompt
    /\ Len(GivenAlerts) = 3
    /\ GivenAlerts[1].severity = "Medium"
    /\ GivenAlerts[2].severity = "High"
    /\ GivenAlerts[3].severity = "High"
    /\ GivenAlerts[2] # GivenAlerts[3]
    /\ Len(results.alert_section) = 4

IsValidate == op.name = "validate_guardrail"
\* The response the backend gave to the last request.
LastResponse == ollama[Len(ollama)].outcome.response
\* The symbols that upper-case to the words of the verdict.
SpelledOverall == { "OVERALL:", "Overall:", "overall:" }
SpelledPass == { "PASS", "Pass", "pass" }

\* C14: validate_guardrail returns passed = true exactly when the
\* upper-cased response contains OVERALL: PASS, that is when somewhere in
\* the response OVERALL: in any casing is followed by exactly one space and
\* PASS in any casing, whatever follows; and it returns the response text
\* unchanged. OVERALL: PASS_WITH_WARNINGS and Overall: Pass pass; OVERALL:
\* PASS with two spaces, OVERALL: FAIL, text without OVERALL and the empty
\* string fail.
C14_PassedIffOverallPass ==
    (IsValidate /\ raised = NULL) =>
        /\ results.validation = LastResponse
        /\ results.passed <=>
               \E i \in 1..(Len(LastResponse) - 2) :
                   /\ LastResponse[i] \in SpelledOverall
                   /\ LastResponse[i + 1] = "sp"
                   /\ LastResponse[i + 2] \in SpelledPass
        /\ LastResponse \in { <<"OVERALL:", "sp", "PASS", "_WITH_WARNINGS">>,
                               <<"Overall:", "sp", "Pass">> } => results.passed
        /\ LastResponse \in { <<"OVERALL:", "sp", "sp", "PASS">>,
                               <<"OVERALL:", "sp", "FAIL">>,
                               <<"PASS">>, <<>> } => ~results.passed

\* The backend answered Overall: Pass, and the verdict is a pass.
C14_Witness ==
    /\ IsValidate
    /\ raised = NULL
    /\ LastResponse = <<"Overall:", "sp", "Pass">>
    /\ results.passed
    /\ results.validation = <<"Overall:", "sp", "Pass">>

IsQuery == op.name = "query"
\* The query call has returned its SynthesisResult.
Returned == IsQuery /\ frame.pc = "idle" /\ results # <<>>
\* The positions in the backend log of the requests built from a template.
RequestsOf(template) == { i \in DOMAIN ollama : ollama[i].prompt.template = template }
\* This step sends a request built from the template.
Sends(template) ==
    /\ Len(ollama') = Len(ollama) + 1
    /\ ollama'[Len(ollama')].prompt.template = template
BackendFailures == { "requests.Timeout", "requests.ConnectionError", "requests.HTTPError" }

\* C17: within one query call the synthesis request is sent only after
\* retrieval and alerting are complete (the prompt holds an entry for every
\* retrieved chunk and the safety block exactly when there are alerts), and
\* the guardrail request is sent only after the synthesis response has been
\* received; the guardrail prompt holds the chunks the synthesis prompt held
\* and the summary exactly as the backend returned it. No request is sent
\* in any other order.
C17_FixedOrder ==
    [][ /\ Sends("synthesis") =>
               /\ frame.pc = "searched"
               /\ ollama = <<>>
               /\ EntryCount(ollama'[1].prompt.context) = Len(frame.chunks)
               /\ \A i \in DOMAIN frame.chunks :
                      ollama'[1].prompt.context[2 * i - 1].content = frame.chunks[i].content
               /\ (ollama'[1].prompt.alert_section # <<>>) <=> (frame.alerts # <<>>)
        /\ Sends("guardrail") =>
               /\ Len(ollama) = 1
               /\ ollama[1].prompt.template = "synthesis"
               /\ ollama[1].outcome.ok
               /\ ollama'[2].prompt.summary = ollama[1].outcome.response
               /\ ollama'[2].prompt.context = ollama[1].prompt.context
               /\ ollama'[2].prompt.query = ollama[1].prompt.query
        /\ Len(ollama') > Len(ollama) => (Sends("synthesis") \/ Sends("guardrail"))
      ]_vars

\* A query that retrieved two chunks and raised alerts, got its summary and
\* had it validated.
C17_Witness ==
    /\ Returned
    /\ Len(ollama) = 2
    /\ Len(results.chunks_used) >= 2
    /\ results.alerts # <<>>
    /\ results.summary = <<"summary">>
    /\ ollama[2].prompt.summary = <<"summary">>

\* C18: when retrieval returns no chunks the query call skips synthesis: no
\* generation request is sent to the backend, and the result carries an
\* empty summary.
C18_EmptyRetrievalSkipsSynthesis ==
    /\ (IsQuery /\ frame.pc # "idle" /\ frame.chunks = <<>>) => ollama = <<>>
    /\ (Returned /\ results.chunks_used = <<>>) =>
           (ollama = <<>> /\ results.summary = <<>>)

\* C19: when the synthesis generation call fails (timeout, transport error
\* or non-2xx status) the query call ends with that exception at its
\* caller, the guardrail request is never sent, and no SynthesisResult is
\* returned.
C19_SynthesisFailureSurfaced ==
    (IsQuery /\ ollama # <<>> /\ ollama[1].outcome.error \in BackendFailures) =>
        /\ raised = ollama[1].outcome.error
        /\ Len(ollama) = 1
        /\ results = <<>>
        /\ frame.pc = "idle"

\* Retrieval found chunks, run_guardrail was set, and the synthesis request
\* met a non-2xx status.
C19_Witness ==
    /\ IsQuery
    /\ op.args.run_guardrail
    /\ scores # <<>>
    /\ Len(ollama) = 1
    /\ ollama[1].outcome.error = "requests.HTTPError"
    /\ raised = "requests.HTTPError"

\* C20: the query call validates only when asked. With run_guardrail false
\* no guardrail request is ever sent and the result has guardrail_passed
\* and guardrail_result None; with run_guardrail true and a synthesis that
\* succeeded, exactly one guardrail request has been sent by the time the
\* call ends, and a result that is returned has both fields set.
C20_ValidatesOnlyWhenAsked ==
    IsQuery =>
        /\ Cardinality(RequestsOf("guardrail")) <= 1
        /\ ~op.args.run_guardrail =>
               /\ RequestsOf("guardrail") = {}
               /\ Returned =>
                      /\ results.guardrail_passed = <<>>
                      /\ results.guardrail_result = <<>>
        /\ (op.args.run_guardrail /\ frame.pc = "idle"
                /\ ollama # <<>> /\ ollama[1].outcome.ok) =>
               Cardinality(RequestsOf("guardrail")) = 1
        /\ (op.args.run_guardrail /\ Returned) =>
               /\ Len(results.guardrail_passed) = 1
               /\ results.guardrail_passed[1] \in BOOLEAN
               /\ results.guardrail_result = <<ollama[2].outcome.response>>

\* A validated query whose verdict is a fail.
C20_Witness ==
    /\ Returned
    /\ op.args.run_guardrail
    /\ results.guardrail_passed = <<FALSE>>
    /\ results.guardrail_result = << <<"OVERALL:", "sp", "FAIL">> >>

IsSearchOnly == op.name = "query_search_only"

\* C21: query_search_only performs retrieval and alerting only. It sends no
\* request to the generation backend; its summary is the fixed sentinel
\* string; its chunks are what search_hybrid returns for top_k, its alerts
\* are detect_high_risk of exactly those chunks; and guardrail_result and
\* guardrail_passed are None.
C21_SearchOnly ==
    IsSearchOnly =>
        /\ ollama = <<>>
        /\ raised = NULL
        /\ results.query = query
        /\ results.summary = SEARCH_ONLY_SUMMARY
        /\ results.chunks_used = HybridList(vector_results, keyword_results,
                                            op.args.top_k)
        /\ results.alerts = detect_high_risk(results.chunks_used)
        /\ results.guardrail_result = None
        /\ results.guardrail_passed = None

\* A search-only call that returned chunks and raised an alert for them.
C21_Witness ==
    /\ IsSearchOnly
    /\ results.chunks_used # <<>>
    /\ results.alerts # <<>>
    /\ Len(results.alerts) < Len(high_risk_terms)

\* C22: in every state of the store that a reader can observe, after any
\* sequence of insert_document, insert_chunk, insert_embedding,
\* insert_embeddings_batch and populate_fts5, every persisted chunk has
\* exactly one chunk_metadata row, exactly one embedding row and exactly one
\* FTS entry, and no such row is visible for a chunk that is not.
C22_ChunkHasEmbeddingAndFts ==
    \A c \in ChunkIdsOf(db_file.chunks) \cup ChunkIdsOf(db_file.chunk_metadata)
             \cup ChunkIdsOf(db_file.embeddings) \cup ChunkIdsOf(db_file.chunks_fts) :
        /\ RowCount(db_file.chunks, c) = 1
        /\ RowCount(db_file.chunk_metadata, c) = 1
        /\ RowCount(db_file.embeddings, c) = 1
        /\ RowCount(db_file.chunks_fts, c) = 1

\* C23: insert_chunk is atomic. The chunks row of a chunk becomes visible to
\* a reader only in the step of an insert_chunk call for that chunk that
\* returned, and then together with its chunk_metadata row; so after a call
\* that failed neither row is visible, whatever commits later.
C23_InsertChunkAtomic ==
    [][\A c \in StoreChunkIds :
           (c \notin ChunkIdsOf(db_file.chunks) /\ c \in ChunkIdsOf(db_file'.chunks))
               => /\ op'.name = "insert_chunk"
                  /\ op'.args.chunk_id = c
                  /\ raised' = NULL
                  /\ c \in ChunkIdsOf(db_file'.chunk_metadata)]_vars

\* C24: insert_chunk(doc_id, chunk) with a doc_id that no document has is
\* rejected, and every chunk a reader sees is owned by a document it sees.
C24_ChunkOwnedByDocument ==
    /\ (op.name = "insert_chunk" /\ op.args.doc_id \notin DocIdsOf(db_conn.documents))
           => raised # NULL
    /\ \A i \in DOMAIN db_file.chunks :
           db_file.chunks[i].doc_id \in DocIdsOf(db_file.documents)

\* C27: for every chunk in the store, category = metadata if and only if one
\* of its headings contains, case-insensitively, a metadata heading pattern,
\* and category = content otherwise: the stored category is the one the
\* stored headings determine, whatever the caller passed.
C27_CategoryFromHeadings ==
    \A i \in DOMAIN db_file.chunks, j \in DOMAIN db_file.chunk_metadata :
        (db_file.chunks[i].chunk_id = db_file.chunk_metadata[j].chunk_id)
            => db_file.chunks[i].category
                   = determine_category(JsonLoads(db_file.chunk_metadata[j].headings_json))

IsUpdateApproval == op.name = "update_approval_status"

\* C25: after any sequence of insert_document and update_approval_status
\* calls every document's approval_status is one of pending, approved,
\* rejected. insert_document adds one document, with status pending, and
\* leaves the others as they are; update_approval_status sets the status of
\* the document it names to the value it is given, from any of the three
\* values to any, and changes no other field of that document and nothing
\* of any other document or of any other table, in the connection and in
\* the file.
C25_ApprovalStatus ==
    [][/\ \A i \in DOMAIN db_file'.documents :
              db_file'.documents[i].approval_status \in APPROVAL_STATUSES
       /\ op'.name = "insert_document"
              => /\ db_file' = db_conn'
                 /\ Len(db_conn'.documents) = Len(db_conn.documents) + 1
                 /\ SubSeq(db_conn'.documents, 1, Len(db_conn.documents))
                        = db_conn.documents
                 /\ db_conn'.documents[Len(db_conn'.documents)].approval_status
                        = APPROVAL_PENDING
                 /\ db_conn'.documents[Len(db_conn'.documents)].doc_id
                        \notin DocIdsOf(db_conn.documents)
       /\ op'.name = "update_approval_status"
              => /\ db_file' = db_conn'
                 /\ raised' = NULL
                 /\ [db_conn' EXCEPT !.documents = db_conn.documents] = db_conn
                 /\ DOMAIN db_conn'.documents = DOMAIN db_conn.documents
                 /\ \A i \in DOMAIN db_conn.documents :
                        db_conn'.documents[i] =
                            IF db_conn.documents[i].doc_id = op'.args.doc_id
                            THEN [db_conn.documents[i] EXCEPT
                                      !.approval_status = op'.args.status]
                            ELSE db_conn.documents[i]]_vars

\* The status of one document was set back to pending while another one is
\* rejected and the store holds chunks.
C25_Witness ==
    /\ IsUpdateApproval
    /\ op.args.status = APPROVAL_PENDING
    /\ \E i, j \in DOMAIN db_file.documents :
           /\ db_file.documents[i].doc_id = op.args.doc_id
           /\ db_file.documents[i].approval_status = APPROVAL_PENDING
           /\ db_file.documents[j].approval_status = "rejected"
    /\ db_file.chunks # <<>>

IsPopulate == op.name \in {"populate_fts5", "populate_high_risk_terms"}

\* C26 (as stated): populate_fts5 and populate_high_risk_terms are
\* idempotent: a second run right after a first one leaves the store in the
\* state the first one left it in, with the same FTS entries and the same
\* high_risk_terms rows.
C26_TwiceSameAsOnce ==
    [][(IsPopulate /\ op'.name = op.name /\ raised = NULL) => db_file' = db_file]_vars

\* C26 (amended): a second run right after a first one leaves the same FTS
\* entries and the same (term, category, severity) triples in the same
\* order, and every other table as it was; the term_id of every
\* high_risk_terms row is new, since AUTOINCREMENT never hands an id out
\* twice.
C26_TwiceSameEntries ==
    [][(IsPopulate /\ op'.name = op.name /\ raised = NULL)
           => /\ raised' = NULL
              /\ db_file'.chunks_fts = db_file.chunks_fts
              /\ get_high_risk_terms(db_file') = get_high_risk_terms(db_file)
              /\ [db_file' EXCEPT !.high_risk_terms = db_file.high_risk_terms,
                                  !.sqlite_sequence = db_file.sqlite_sequence] = db_file
              /\ op'.name = "populate_fts5" => db_file' = db_file
              /\ op'.name = "populate_high_risk_terms"
                     => \A i \in DOMAIN db_file'.high_risk_terms :
                            db_file'.high_risk_terms[i].term_id
                                = db_file.high_risk_terms[i].term_id
                                      + Len(HIGH_RISK_TERMS)]_vars

\* The lexicon has been loaded twice and the FTS table rebuilt over two
\* chunks.
C26_Witness ==
    /\ IsPopulate
    /\ db_file.sqlite_sequence = 2 * Len(HIGH_RISK_TERMS)
    /\ Len(db_file.high_risk_terms) = Len(HIGH_RISK_TERMS)
    /\ Len(db_file.chunks_fts) = 2

\* The ingestion command has exited.
IsMainExit == op.name = "main" /\ frame.pc = "idle"

\* The command failed inside run_pipeline, after the input was found and
\* converted.
FailedAfterValidation ==
    /\ Len(results.stderr) = 2
    /\ results.stderr[2] # "ConversionError"

\* C28: the ingestion command exits 0 on success, 1 when the input is
\* missing or invalid, and 2 when the pipeline fails after input
\* validation, with the error on stderr.
C28_ExitCodes ==
    IsMainExit
        => /\ (results.exit_code = 0) <=> (results.stderr = None)
           /\ results = NotFound => results.exit_code = 1
           /\ results.stderr = <<"Error: Pipeline failed", "ConversionError">>
                  => results.exit_code = 1
           /\ FailedAfterValidation => results.exit_code = 2

\* What main does: 0 on success, 1 with the error on stderr in every
\* other case.
C28_ExitCodesAsCoded ==
    IsMainExit
        => /\ results.exit_code \in {0, 1}
           /\ (results.exit_code = 0) <=> (results.stderr = None)
           /\ (results.exit_code = 0) => op.args.pdf_exists
           /\ FailedAfterValidation => results.exit_code = 1

\* A run has failed after its document record was stored.
C28_Witness ==
    /\ IsMainExit
    /\ FailedAfterValidation
    /\ Len(db_file.documents) > Cardinality(ingested)

\* The chunks rows of the documents whose run completed.
IngestedChunks ==
    { i \in DOMAIN db_file.chunks : db_file.chunks[i].doc_id \in ingested }

\* C29: after run_pipeline has completed, on a fresh file or on one that
\* earlier runs wrote, every chunk of every ingested document has exactly
\* one embedding row, made of the chunk's contextualized_text, and exactly
\* one FTS entry; when a run has just completed the FTS entries are exactly
\* the (chunk_id, content) pairs of the chunks table.
C29_IngestedChunksIndexed ==
    /\ \A i \in IngestedChunks :
           LET row == db_file.chunks[i]
           IN /\ RowCount(db_file.chunks, row.chunk_id) = 1
              /\ RowCount(db_file.embeddings, row.chunk_id) = 1
              /\ \A e \in DOMAIN db_file.embeddings :
                     db_file.embeddings[e].chunk_id = row.chunk_id
                         => db_file.embeddings[e].embedding
                                = Embed(row.contextualized_text)
              /\ RowCount(db_file.chunks_fts, row.chunk_id) = 1
    /\ (IsMainExit /\ results = Succeeded)
           => /\ db_file.chunks_fts = FtsFromChunks(db_file)
              /\ { <<db_file.chunks_fts[i].chunk_id, db_file.chunks_fts[i].content>> :
                       i \in DOMAIN db_file.chunks_fts }
                     = { <<db_file.chunks[i].chunk_id, db_file.chunks[i].content>> :
                             i \in DOMAIN db_file.chunks }

\* A second run has just completed on the file of a first one, each over a
\* PDF with chunks under headings.
C29_Witness ==
    /\ IsMainExit
    /\ results = Succeeded
    /\ Cardinality(ingested) = 2
    /\ \A d \in ingested :
           \E i \in IngestedChunks :
               /\ db_file.chunks[i].doc_id = d
               /\ db_file.chunks[i].contextualized_text # db_file.chunks[i].content

\* C30: each lane of search_hybrid holds at most 15 results, so every chunk
\* found by both lanes has a strictly higher fused score than every chunk
\* found by one lane only (2/(60+15) > 1/(60+1)) and comes before it in the
\* returned list; the list holds at most min(top_k, 30) results, each of
\* them a chunk of one of the two lanes.
C30_BothLanesFirst ==
    IsHybrid =>
        /\ Len(vector_results) <= LANE_K
        /\ Len(keyword_results) <= LANE_K
        /\ FLess(RrfScore(0), FAdd(RrfScore(LANE_K - 1), RrfScore(LANE_K - 1)))
        /\ \A i, j \in DOMAIN scores :
               (InBothLanes(scores[i].chunk_id) /\ ~InBothLanes(scores[j].chunk_id))
                   => FLess(scores[j].rrf_score, scores[i].rrf_score)
        /\ \A i, j \in DOMAIN results :
               (InBothLanes(results[i].chunk_id) /\ ~InBothLanes(results[j].chunk_id))
                   => /\ i < j
                      /\ FLess(results[j].score, results[i].score)
        /\ \A j \in DOMAIN results :
               ~InBothLanes(results[j].chunk_id)
                   => \A c \in IdSet(scores) : InBothLanes(c) => c \in IdSet(results)
        /\ Len(results) <= Min(op.k, 2 * LANE_K)
        /\ IdSet(results) \subseteq IdSet(vector_results) \cup IdSet(keyword_results)

\* Both lanes are full; the last chunk of the vector lane is also the last
\* of the keyword lane, and it was returned ahead of the first chunk of the
\* vector lane, which the keyword lane does not hold.
C30_Witness ==
    /\ IsHybrid
    /\ Len(vector_results) = LANE_K
    /\ Len(keyword_results) = LANE_K
    /\ vector_results[LANE_K].chunk_id = keyword_results[LANE_K].chunk_id
    /\ ~InBothLanes(vector_results[1].chunk_id)
    /\ \E i, j \in DOMAIN results :
           /\ i < j
           /\ results[i].chunk_id = vector_results[LANE_K].chunk_id
           /\ results[j].chunk_id = vector_results[1].chunk_id

====
